---- MODULE Spec2Model ----
(***************************************************************************)
(* Sale transaction and inventory consistency engine of the PiteYela POS.  *)
(*                                                                         *)
(* Every register (session) is a POS window with its own in-memory cart;   *)
(* all of them share one SQLite database file.  The persisted tables are   *)
(* the COMMITTED contents of that file, which is what any other            *)
(* connection reads.  A connection that has executed a write statement     *)
(* holds the file's write (RESERVED) lock until it commits or rolls back;  *)
(* every statement that needs the lock while another connection holds it   *)
(* waits for the busy timeout of get_connection and then raises            *)
(* "database is locked".                                                   *)
(***************************************************************************)
EXTENDS Integers, Sequences, FiniteSets, TLC

\* ------------------------------------------------------------- bounds
NumSessions == 2
NumProducts == 2
MaxStock == 2
MaxSales == 2
MaxDeducted == 3

Sessions == 1..NumSessions
ProductIds == 1..NumProducts
Quantities == 1..MaxStock
StockLevels == 0..MaxStock

VARIABLES
    products,      \* products table (committed): id -> row
    sales,         \* sales table (committed): sequence of headers, in id order
    sale_items,    \* sale_items table (committed): sequence of rows, in id order
    write_lock,    \* the session whose connection holds the write lock, or NoLock
    cart,          \* POSWindow.cart of every session
    pc,            \* where every session is in complete_sale / create_sale
    idx,           \* index of the cart line the session's current loop is at
    tx,            \* uncommitted work of the session's create_sale connection
    result,        \* outcome of the session's last checkout attempt
    started,       \* history: how many sales were committed when that attempt began
    before,        \* history: the products table when the session's transaction began
    handed,        \* history: the cart lines handed to create_sale, per sale id
    edit,          \* the inventory window's edit in progress, between its read and its write
    total,         \* POSWindow.total_label of every session: the grand total shown
    deduct,        \* every direct caller of update_inventory_after_sale: its call in progress
    deducted,      \* history: units per product deducted by the calls that returned True
    users,         \* users table (committed): sequence of rows, in id order
    current_user,  \* auth._current_user of the back office: the user logged in, or NoUser
    startup,       \* main: how its call of init_db ended
    added,         \* InventoryWindow.add_product: the message box of the last add
    overtaken,     \* history: units sold of the product between the read of the last edit and its write
    clock,         \* the day CURRENT_TIMESTAMP falls on
    report,        \* ReportsWindow: the tables and labels of the last report generated
    session,       \* auth._current_user of every register: the user logged in, or NoUser
    print_jobs,    \* the print threads every register has started that have not run yet
    last_receipt,  \* printer._last_receipt_data of every register, or NoReceipt
    receipts,      \* the sale ids of the receipts every register has printed
    reprinted      \* what the last reprint_last_receipt of every register returned

vars == <<products, sales, sale_items, write_lock, cart, pc, idx, tx, result,
          started, before, handed, edit, total, deduct, deducted,
          users, current_user, startup, added, overtaken, clock, report,
          session, print_jobs, last_receipt, receipts, reprinted>>

\* What the registers and the direct callers of the ledger leave alone.
back_office == <<users, current_user, startup, added, overtaken, clock, report>>

\* The session and the printer of every register.
till == <<session, print_jobs, last_receipt, receipts, reprinted>>

store == <<products, sales, sale_items>>

\* ------------------------------------------------------------- values
NoLock == 0

\* Amounts of money are counted in thousandths of a shilling.
Shillings(n) == n * 1000

\* What the product dialog holds of a product besides its stock level.
ProductData ==
    {[name |-> "Lager", milliliters |-> 330, cost_price |-> Shillings(2000),
      selling_price |-> Shillings(3000)],
     [name |-> "Stout", milliliters |-> 500, cost_price |-> Shillings(2500),
      selling_price |-> Shillings(3500)]}

\* The products on the shelf at the start, as add_sample_items enters them.
ShelfData(p) ==
    IF p % 2 = 1
    THEN [name |-> "Lager", milliliters |-> 330, cost_price |-> Shillings(2000),
          selling_price |-> Shillings(3000)]
    ELSE [name |-> "Stout", milliliters |-> 500, cost_price |-> Shillings(2500),
          selling_price |-> Shillings(3500)]

\* No row of the products table under an id.
NoRow == [present |-> FALSE, name |-> "", milliliters |-> 0, cost_price |-> 0,
          selling_price |-> 0, profit |-> 0,
          quantity_stocked |-> 0, quantity_sold |-> 0, quantity_available |-> 0]

\* A row of the products table as add_product inserts it: profit and
\* quantity_available are columns of their own, quantity_sold takes its default.
ProductRow(data, stocked) ==
    [present |-> TRUE, name |-> data.name, milliliters |-> data.milliliters,
     cost_price |-> data.cost_price, selling_price |-> data.selling_price,
     profit |-> data.selling_price - data.cost_price,
     quantity_stocked |-> stocked, quantity_sold |-> 0,
     quantity_available |-> stocked]

\* The name, volume, cost and selling price that the product dialog loads.
DataOf(row) ==
    [name |-> row.name, milliliters |-> row.milliliters,
     cost_price |-> row.cost_price, selling_price |-> row.selling_price]

NoTx == [open |-> FALSE, sale_id |-> 0, sale_date |-> 0, grand_total |-> 0,
         items |-> <<>>]

NoEdit == [active |-> FALSE, product_id |-> 0, quantity_stocked |-> 0,
           quantity_available |-> 0, data |-> DataOf(NoRow)]

NoCall == [pc |-> "idle", product_id |-> 0, quantity |-> 0, returned |-> "None"]

NoResult == [kind |-> "None", product_id |-> 0, msg |-> "", available |-> 0, sale_id |-> 0]

EmptyCartResult == [NoResult EXCEPT !.kind = "EmptyCart"]

FailedResult == [NoResult EXCEPT !.kind = "Failed"]

SessionExpiredResult ==
    [NoResult EXCEPT !.kind = "Error",
                     !.msg = "User session expired. Please login again."]

StockErrorResult(p, v) ==
    [NoResult EXCEPT !.kind = "StockError", !.product_id = p,
                     !.msg = v.msg, !.available = v.available]

SaleResult(id) == [NoResult EXCEPT !.kind = "Sale", !.sale_id = id]

\* add_item_to_cart: the error dialog of an item that is not added.
AddRejectedResult(p, msg, available) ==
    [NoResult EXCEPT !.kind = "AddRejected", !.product_id = p,
                     !.msg = msg, !.available = available]

\* ------------------------------------------------------------- staff
\* hash_password: the bcrypt hash of a password.  verify_password accepts a
\* password for the hash made from it and for no other.
hash_password(password) == [bcrypt |-> password]

verify_password(password, password_hash) == password_hash = hash_password(password)

\* auth._current_user when nobody is logged in (None).
NoUser == [id |-> 0, username |-> "", role |-> "", full_name |-> ""]

\* init_db: the row of the default admin, "INSERT INTO users (username,
\* password_hash, role, full_name)"; is_active takes its default.
DefaultAdmin(id) ==
    [id |-> id, username |-> "admin", password_hash |-> hash_password("admin123"),
     role |-> "admin", full_name |-> "Administrator", is_active |-> 1]

\* create_user: the row of a new user.
UserRow(id, username, password, role, full_name) ==
    [id |-> id, username |-> username, password_hash |-> hash_password(password),
     role |-> role, full_name |-> full_name, is_active |-> 1]

\* The users of a shop in business: the default admin and a cashier.
Staff == <<DefaultAdmin(1), UserRow(2, "cashier", "till", "cashier", "Cashier")>>

\* The member of staff who logs in at register s, as the dict that login builds.
LoggedIn(s) ==
    IF s \in 1..Len(Staff)
    THEN [id |-> Staff[s].id, username |-> Staff[s].username,
          role |-> Staff[s].role, full_name |-> Staff[s].full_name]
    ELSE [id |-> s, username |-> "cashier", role |-> "cashier", full_name |-> "Cashier"]

\* get_current_user at register s: _current_user, None after logout.
get_current_user(s) == session[s]

\* _last_receipt_data = None
NoReceipt == [found |-> FALSE, sale_id |-> 0, cashier_id |-> 0, grand_total |-> 0,
              items |-> <<>>]

\* No reprint asked for yet.
NoReprint == [success |-> FALSE, msg |-> "", sale_id |-> 0]

\* No message box shown yet.
NoMessage == [kind |-> "None", product_id |-> 0, text |-> ""]

\* No report generated yet.
NoReport == [generated |-> FALSE, start |-> 0, end |-> 0, table |-> {},
             total_sales |-> 0, transactions |-> 0, total_cost |-> 0,
             total_profit |-> 0, cashiers |-> {}]

\* ------------------------------------------------------------- money
\* round(x, 0) and round(x, 2) of Python, and the "{:,.0f}" of format_currency:
\* to the nearest multiple of unit, a tie to the even one.
RoundHalfEven(x, unit) ==
    LET r == x % unit
        down == x - r
    IN  IF 2 * r < unit THEN down
        ELSE IF 2 * r > unit THEN down + unit
        ELSE IF (down \div unit) % 2 = 0 THEN down
        ELSE down + unit

\* calculate_line_total: round(unit_price * quantity, 2)
calculate_line_total(unit_price, quantity) ==
    RoundHalfEven(unit_price * quantity, 10)

RECURSIVE SumOfTotals(_, _)
\* "total += calculate_line_total(item['unit_price'], item['quantity'])" over the
\* items from index i on.
SumOfTotals(items, i) ==
    IF i > Len(items) THEN 0
    ELSE calculate_line_total(items[i].unit_price, items[i].quantity)
         + SumOfTotals(items, i + 1)

\* calculate_grand_total: round(total, 2)
calculate_grand_total(items) == RoundHalfEven(SumOfTotals(items, 1), 10)

RECURSIVE SumLineTotals(_, _)
\* create_sale: sum(item['line_total'] for item in items), from index i on.
SumLineTotals(items, i) ==
    IF i > Len(items) THEN 0
    ELSE items[i].line_total + SumLineTotals(items, i + 1)

\* format_currency: the amount in whole shillings, as "UGX {amount:,.0f}" shows it.
format_currency(amount) == RoundHalfEven(amount, 1000) \div 1000

\* ------------------------------------------------------------- the product ledger
\* Product.profit
profit(row) == row.selling_price - row.cost_price

\* Product.quantity_available
quantity_available(row) == row.quantity_stocked - row.quantity_sold

\* A Product built from the profit and quantity_available columns of its row.
get_product_stored_columns(p) ==
    [present |-> products[p].present,
     name |-> products[p].name,
     milliliters |-> products[p].milliliters,
     cost_price |-> products[p].cost_price,
     selling_price |-> products[p].selling_price,
     quantity_stocked |-> products[p].quantity_stocked,
     quantity_sold |-> products[p].quantity_sold,
     profit |-> products[p].profit,
     quantity_available |-> products[p].quantity_available]

\* get_product: "SELECT id, name, description, milliliters, cost_price,
\* selling_price, quantity_stocked, quantity_sold FROM products WHERE id = ?" as
\* committed, made a Product whose profit and quantity_available are its
\* properties; a record that is not present (None) when there is no row.
get_product(p) ==
    [present |-> products[p].present,
     name |-> products[p].name,
     milliliters |-> products[p].milliliters,
     cost_price |-> products[p].cost_price,
     selling_price |-> products[p].selling_price,
     quantity_stocked |-> products[p].quantity_stocked,
     quantity_sold |-> products[p].quantity_sold,
     profit |-> profit(products[p]),
     quantity_available |-> quantity_available(products[p])]

\* The validation with a product that is not found let through.
validate_stock_availability_missing_passes(p, requested_quantity) ==
    LET product == get_product(p)
    IN  IF product.present /\ quantity_available(product) < requested_quantity
        THEN [valid |-> FALSE, msg |-> "Insufficient stock",
              available |-> quantity_available(product)]
        ELSE [valid |-> TRUE, msg |-> "", available |-> 0]

\* The validation reading the stored quantity_available column of the row.
validate_stock_availability_stored_column(p, requested_quantity) ==
    IF ~products[p].present
    THEN [valid |-> FALSE, msg |-> "Product not found", available |-> 0]
    ELSE IF products[p].quantity_available < requested_quantity
    THEN [valid |-> FALSE, msg |-> "Insufficient stock",
          available |-> products[p].quantity_available]
    ELSE [valid |-> TRUE, msg |-> "", available |-> 0]

\* validate_stock_availability: (is_valid, error_message)
validate_stock_availability(p, requested_quantity) ==
    LET product == get_product(p)
    IN  IF ~product.present
        THEN [valid |-> FALSE, msg |-> "Product not found", available |-> 0]
        ELSE IF product.quantity_available < requested_quantity
        THEN [valid |-> FALSE, msg |-> "Insufficient stock",
              available |-> product.quantity_available]
        ELSE [valid |-> TRUE, msg |-> "", available |-> 0]

\* A connection whose statements wait for the write lock without limit.
busy_timeout_unbounded == FALSE

\* get_connection: sqlite3.connect(..., timeout=20.0).  A statement that finds the
\* write lock held by another connection gives up after the timeout.
busy_timeout_expires == TRUE

\* The update writing the quantity of the sale over the counter instead of adding
\* to it.
update_quantity_sold_overwrites(prods, p, q) ==
    IF prods[p].present
    THEN [prods EXCEPT ![p].quantity_sold = q]
    ELSE prods

\* UPDATE products SET quantity_sold = quantity_sold + ? WHERE id = ?
update_quantity_sold(prods, p, q) ==
    IF prods[p].present
    THEN [prods EXCEPT ![p].quantity_sold = @ + q]
    ELSE prods

\* The deduction applied whatever the state of the write lock, as it would be if the
\* statement ran on the connection of create_sale.
update_inventory_on_sale_connection(prods, lock, p, q) ==
    update_quantity_sold(prods, p, q)

\* update_inventory_after_sale: execute_transaction opens a connection of its own
\* for the UPDATE.  With the write lock free the update is applied and committed;
\* with the lock held by another connection (that of the calling create_sale
\* included) the UPDATE raises "database is locked" after the busy timeout,
\* execute_transaction rolls back and returns False, and nothing is changed.
update_inventory_after_sale(prods, lock, p, q) ==
    IF lock = NoLock
    THEN update_quantity_sold(prods, p, q)
    ELSE prods

\* ------------------------------------------------------------- the cart
RECURSIVE LineOf(_, _, _)
\* Index of the first cart line of product p at or after i, 0 when there is none.
LineOf(c, p, i) ==
    IF i > Len(c) THEN 0
    ELSE IF c[i].product_id = p THEN i
    ELSE LineOf(c, p, i + 1)

\* A pop that takes the lines after the one removed along.
RemoveAt_drops_rest(c, i) == SubSeq(c, 1, i - 1)

\* self.cart.pop(row)
RemoveAt(c, i) == SubSeq(c, 1, i - 1) \o SubSeq(c, i + 1, Len(c))

InCheckout(s) == pc[s] # "building"

\* refresh_cart: the grand total that total_label shows for cart c.
refresh_cart(c) == format_currency(calculate_grand_total(c))

\* The merge that adds the units and leaves the line total of the line as it was.
MergeLine_keeps_line_total(c, i, quantity) ==
    [c EXCEPT ![i].quantity = @ + quantity]

\* The cart with the units added to the existing line of the product, whose line
\* total is computed again from its own unit price.
MergeLine(c, i, quantity) ==
    [c EXCEPT ![i].quantity = @ + quantity,
              ![i].line_total =
                  calculate_line_total(c[i].unit_price, c[i].quantity + quantity)]

\* The cart with a line that is appended for every add, merging nothing.
AddLine_always_appends(c, product_id, product, quantity) ==
    Append(c, [product_id |-> product_id,
               product_name |-> product.name,
               quantity |-> quantity,
               unit_price |-> product.selling_price,
               line_total |-> calculate_line_total(product.selling_price, quantity)])

\* add_item_to_cart, "if existing_item: ... else: self.cart.append(...)".
AddLine(c, product_id, product, quantity) ==
    IF LineOf(c, product_id, 1) # 0
    THEN MergeLine(c, LineOf(c, product_id, 1), quantity)
    ELSE Append(c, [product_id |-> product_id,
                    product_name |-> product.name,
                    quantity |-> quantity,
                    unit_price |-> product.selling_price,
                    line_total |-> calculate_line_total(product.selling_price, quantity)])

\* The check of an add that looks at the new units only, not at those in the cart.
AddCheck_new_units_only(c, p, quantity) ==
    LET product == get_product(p)
        first == validate_stock_availability(p, quantity)
    IN  IF ~product.present
        THEN [valid |-> FALSE, msg |-> "Product not found", available |-> 0]
        ELSE first

\* add_item_to_cart, the checks before the cart is touched: get_product, the
\* validation of the new units and, for a product already in the cart, the
\* validation of the units in the cart plus the new ones.
AddCheck(c, p, quantity) ==
    LET product == get_product(p)
        i == LineOf(c, p, 1)
        first == validate_stock_availability(p, quantity)
        second == validate_stock_availability(p, c[i].quantity + quantity)
    IN  IF ~product.present
        THEN [valid |-> FALSE, msg |-> "Product not found", available |-> 0]
        ELSE IF ~first.valid THEN first
        ELSE IF i # 0 /\ ~second.valid
        THEN [second EXCEPT !.msg = "Cannot add more. Insufficient stock"]
        ELSE [valid |-> TRUE, msg |-> "", available |-> 0]

\* An add that books the units as sold when they enter the cart.
add_item_reserves_stock(s, p, quantity) ==
    /\ pc[s] = "building"
    /\ AddCheck(cart[s], p, quantity).valid
    /\ cart' = [cart EXCEPT ![s] = AddLine(@, p, get_product(p), quantity)]
    /\ total' = [total EXCEPT ![s] = refresh_cart(cart'[s])]
    /\ products' = update_quantity_sold(products, p, quantity)
    /\ result' = [result EXCEPT ![s] = NoResult]
    /\ started' = [started EXCEPT ![s] = 0]
    /\ UNCHANGED <<sales, sale_items, write_lock, pc, idx, tx, before, handed, edit,
                   deduct, deducted, back_office, till>>

\* add_item_to_cart, when it changes the cart.
add_item_to_cart(s, p, quantity) ==
    /\ pc[s] = "building"
    /\ AddCheck(cart[s], p, quantity).valid
    /\ cart' = [cart EXCEPT ![s] = AddLine(@, p, get_product(p), quantity)]
    /\ total' = [total EXCEPT ![s] = refresh_cart(cart'[s])]
    /\ result' = [result EXCEPT ![s] = NoResult]
    /\ started' = [started EXCEPT ![s] = 0]
    /\ UNCHANGED <<store, write_lock, pc, idx, tx, before, handed, edit,
                   deduct, deducted, back_office, till>>

\* add_item_to_cart, when it shows an error dialog and returns: the cart and the
\* total shown stay as they are.
add_item_rejected(s, p, quantity) ==
    /\ pc[s] = "building"
    /\ ~AddCheck(cart[s], p, quantity).valid
    /\ result' = [result EXCEPT ![s] =
                     AddRejectedResult(p, AddCheck(cart[s], p, quantity).msg,
                                       AddCheck(cart[s], p, quantity).available)]
    /\ started' = [started EXCEPT ![s] = 0]
    /\ UNCHANGED <<store, write_lock, cart, pc, idx, tx, before, handed, edit,
                   total, deduct, deducted, back_office, till>>

\* A removal that leaves the total shown as it was.
remove_item_without_refresh(s, row) ==
    /\ pc[s] = "building"
    /\ row \in 1..Len(cart[s])
    /\ cart' = [cart EXCEPT ![s] = RemoveAt(@, row)]
    /\ result' = [result EXCEPT ![s] = NoResult]
    /\ started' = [started EXCEPT ![s] = 0]
    /\ UNCHANGED <<store, write_lock, pc, idx, tx, before, handed, edit,
                   total, deduct, deducted, back_office, till>>

\* remove_item_at_row / remove_selected_item: "if 0 <= row < len(self.cart):
\* self.cart.pop(row); self.refresh_cart()", nothing for any other row.
remove_item_at_row(s, row) ==
    /\ pc[s] = "building"
    /\ IF row \in 1..Len(cart[s])
       THEN /\ cart' = [cart EXCEPT ![s] = RemoveAt(@, row)]
            /\ total' = [total EXCEPT ![s] = refresh_cart(cart'[s])]
            /\ result' = [result EXCEPT ![s] = NoResult]
            /\ started' = [started EXCEPT ![s] = 0]
       ELSE UNCHANGED <<cart, total, result, started>>
    /\ UNCHANGED <<store, write_lock, pc, idx, tx, before, handed, edit,
                   deduct, deducted, back_office, till>>

\* cancel_sale
cancel_sale(s) ==
    /\ pc[s] = "building"
    /\ cart[s] # <<>>
    /\ cart' = [cart EXCEPT ![s] = <<>>]
    /\ total' = [total EXCEPT ![s] = refresh_cart(cart'[s])]
    /\ result' = [result EXCEPT ![s] = NoResult]
    /\ started' = [started EXCEPT ![s] = 0]
    /\ UNCHANGED <<store, write_lock, pc, idx, tx, before, handed, edit,
                   deduct, deducted, back_office, till>>

\* ------------------------------------------------------------- checkout
\* complete_sale, from the click to the first validation read.
complete_sale(s) ==
    /\ pc[s] = "building"
    /\ Len(sales) + Cardinality({t \in Sessions : InCheckout(t)}) < MaxSales
    /\ IF cart[s] = <<>>
       THEN /\ result' = [result EXCEPT ![s] = EmptyCartResult]
            /\ UNCHANGED <<pc, idx, started>>
       ELSE /\ pc' = [pc EXCEPT ![s] = "validate"]
            /\ idx' = [idx EXCEPT ![s] = 1]
            /\ started' = [started EXCEPT ![s] = Len(sales)]
            /\ UNCHANGED result
    /\ UNCHANGED <<store, write_lock, cart, tx, before, handed, edit,
                   total, deduct, deducted, back_office, till>>

\* A validation loop after which create_sale is called whoever is logged in.
validate_line_without_user_check(s) ==
    /\ pc[s] = "validate"
    /\ LET item == cart[s][idx[s]]
           v == validate_stock_availability(item.product_id, item.quantity)
       IN  IF ~v.valid
           THEN /\ result' = [result EXCEPT ![s] = StockErrorResult(item.product_id, v)]
                /\ pc' = [pc EXCEPT ![s] = "building"]
                /\ idx' = [idx EXCEPT ![s] = 0]
           ELSE IF idx[s] < Len(cart[s])
           THEN /\ idx' = [idx EXCEPT ![s] = @ + 1]
                /\ UNCHANGED <<pc, result>>
           ELSE /\ pc' = [pc EXCEPT ![s] = "insert_sale"]
                /\ idx' = [idx EXCEPT ![s] = 0]
                /\ UNCHANGED result
    /\ UNCHANGED <<store, write_lock, cart, tx, started, before, handed, edit,
                   total, deduct, deducted, back_office, till>>

\* complete_sale: one turn of "for item in self.cart: validate_stock_availability"
\* and, after the last turn, "user = get_current_user(); if not user: ... return".
validate_line(s) ==
    /\ pc[s] = "validate"
    /\ LET item == cart[s][idx[s]]
           v == validate_stock_availability(item.product_id, item.quantity)
       IN  IF ~v.valid
           THEN /\ result' = [result EXCEPT ![s] = StockErrorResult(item.product_id, v)]
                /\ pc' = [pc EXCEPT ![s] = "building"]
                /\ idx' = [idx EXCEPT ![s] = 0]
           ELSE IF idx[s] < Len(cart[s])
           THEN /\ idx' = [idx EXCEPT ![s] = @ + 1]
                /\ UNCHANGED <<pc, result>>
           ELSE IF get_current_user(s) = NoUser
           THEN /\ result' = [result EXCEPT ![s] = SessionExpiredResult]
                /\ pc' = [pc EXCEPT ![s] = "building"]
                /\ idx' = [idx EXCEPT ![s] = 0]
           ELSE /\ pc' = [pc EXCEPT ![s] = "insert_sale"]
                /\ idx' = [idx EXCEPT ![s] = 0]
                /\ UNCHANGED result
    /\ UNCHANGED <<store, write_lock, cart, tx, started, before, handed, edit,
                   total, deduct, deducted, back_office, till>>

\* An INSERT INTO sales that does not wait for the write lock: two transactions
\* are open at once and each takes the id that follows the committed sales.
insert_sale_without_lock(s) ==
    /\ pc[s] = "insert_sale"
    /\ write_lock' = s
    /\ tx' = [tx EXCEPT ![s] = [open |-> TRUE, sale_id |-> Len(sales) + 1,
                                sale_date |-> clock,
                                grand_total |-> SumLineTotals(cart[s], 1),
                                items |-> <<>>]]
    /\ before' = [before EXCEPT ![s] = products]
    /\ pc' = [pc EXCEPT ![s] = "insert_items"]
    /\ UNCHANGED <<store, cart, idx, result, started, handed, edit,
                   total, deduct, deducted, back_office, till>>

\* create_sale: grand_total = sum(item['line_total'] for item in items) and
\* INSERT INTO sales.  The statement takes the write lock; the id is that of the
\* AUTOINCREMENT key (sales are never deleted).
insert_sale(s) ==
    /\ pc[s] = "insert_sale"
    /\ write_lock = NoLock
    /\ write_lock' = s
    /\ tx' = [tx EXCEPT ![s] = [open |-> TRUE, sale_id |-> Len(sales) + 1,
                                sale_date |-> clock,
                                grand_total |-> SumLineTotals(cart[s], 1),
                                items |-> <<>>]]
    /\ before' = [before EXCEPT ![s] = products]
    /\ pc' = [pc EXCEPT ![s] = "insert_items"]
    /\ UNCHANGED <<store, cart, idx, result, started, handed, edit,
                   total, deduct, deducted, back_office, till>>

\* A failed create_sale after which complete_sale clears the cart.
sale_failed_clears_cart(s) ==
    /\ tx' = [tx EXCEPT ![s] = NoTx]
    /\ before' = [before EXCEPT ![s] = [p \in ProductIds |-> NoRow]]
    /\ write_lock' = IF write_lock = s THEN NoLock ELSE write_lock
    /\ result' = [result EXCEPT ![s] = FailedResult]
    /\ cart' = [cart EXCEPT ![s] = <<>>]
    /\ total' = [total EXCEPT ![s] = refresh_cart(cart'[s])]
    /\ pc' = [pc EXCEPT ![s] = "building"]
    /\ idx' = [idx EXCEPT ![s] = 0]
    /\ UNCHANGED <<store, started, handed, edit, deduct, deducted, back_office, till>>

\* A checkout that returns without a sale id: the transaction of create_sale is
\* rolled back and its connection closed, complete_sale shows "Failed to create
\* sale" and keeps the cart.
sale_failed(s) ==
    /\ tx' = [tx EXCEPT ![s] = NoTx]
    /\ before' = [before EXCEPT ![s] = [p \in ProductIds |-> NoRow]]
    /\ write_lock' = IF write_lock = s THEN NoLock ELSE write_lock
    /\ result' = [result EXCEPT ![s] = FailedResult]
    /\ pc' = [pc EXCEPT ![s] = "building"]
    /\ idx' = [idx EXCEPT ![s] = 0]
    /\ UNCHANGED <<store, cart, started, handed, edit,
                   total, deduct, deducted, back_office, till>>

\* create_sale: INSERT INTO sales finds the write lock held until the busy timeout.
insert_sale_locked(s) ==
    /\ pc[s] = "insert_sale"
    /\ write_lock # NoLock
    /\ busy_timeout_expires
    /\ sale_failed(s)

\* create_sale: product_cache, the volume of a product as get_product reads it
\* now, 0 when the product is gone.
product_cache(p) == IF get_product(p).present THEN get_product(p).milliliters ELSE 0

\* create_sale: the row that INSERT INTO sale_items writes for a cart line.
SaleItemRow(sale_id, item) ==
    [sale_id |-> sale_id,
     product_id |-> item.product_id,
     product_name |-> item.product_name,
     quantity |-> item.quantity,
     unit_price |-> item.unit_price,
     line_total |-> item.line_total,
     milliliters |-> product_cache(item.product_id)]

\* create_sale: the product_cache reads and the INSERTs INTO sale_items, on the
\* connection of the sale.
insert_sale_items(s) ==
    /\ pc[s] = "insert_items"
    /\ tx' = [tx EXCEPT ![s].items =
                 [i \in 1..Len(cart[s]) |-> SaleItemRow(tx[s].sale_id, cart[s][i])]]
    /\ pc' = [pc EXCEPT ![s] = "update_inventory"]
    /\ idx' = [idx EXCEPT ![s] = 1]
    /\ UNCHANGED <<store, write_lock, cart, result, started, before, handed, edit,
                   total, deduct, deducted, back_office, till>>

\* create_sale: one turn of "for item in items: update_inventory_after_sale(...)",
\* whose return value is not looked at.
update_inventory(s) ==
    /\ pc[s] = "update_inventory"
    /\ write_lock = NoLock \/ busy_timeout_expires
    /\ LET item == cart[s][idx[s]]
       IN  products' = update_inventory_after_sale(products, write_lock,
                                                   item.product_id, item.quantity)
    /\ IF idx[s] < Len(cart[s])
       THEN /\ idx' = [idx EXCEPT ![s] = @ + 1]
            /\ UNCHANGED pc
       ELSE /\ idx' = [idx EXCEPT ![s] = 0]
            /\ pc' = [pc EXCEPT ![s] = "commit"]
    /\ UNCHANGED <<sales, sale_items, write_lock, cart, tx, result, started, before, handed, edit,
                   total, deduct, deducted, back_office, till>>

\* The details of a sale with the unit price of every item read from the products
\* table, as a join would.
get_sale_details_joins_products(sale_id) ==
    IF sale_id \in 1..Len(sales)
    THEN [found |-> TRUE, sale_id |-> sales[sale_id].id,
          cashier_id |-> sales[sale_id].cashier_id,
          grand_total |-> sales[sale_id].grand_total,
          items |-> LET rows == SelectSeq(sale_items, LAMBDA r : r.sale_id = sale_id)
                    IN  [i \in 1..Len(rows) |->
                            [rows[i] EXCEPT !.unit_price =
                                products[rows[i].product_id].selling_price]]]
    ELSE [found |-> FALSE, sale_id |-> 0, cashier_id |-> 0, grand_total |-> 0,
          items |-> <<>>]

\* get_sale_details: the header and "SELECT ... FROM sale_items WHERE sale_id = ?
\* ORDER BY id", as committed; None when there is no such sale.
get_sale_details(sale_id) ==
    IF sale_id \in 1..Len(sales)
    THEN [found |-> TRUE, sale_id |-> sales[sale_id].id,
          cashier_id |-> sales[sale_id].cashier_id,
          grand_total |-> sales[sale_id].grand_total,
          items |-> SelectSeq(sale_items, LAMBDA r : r.sale_id = sale_id)]
    ELSE [found |-> FALSE, sale_id |-> 0, cashier_id |-> 0, grand_total |-> 0,
          items |-> <<>>]

\* A commit after which complete_sale leaves the cart as it was.
commit_sale_keeps_cart(s) ==
    /\ pc[s] = "commit"
    /\ sales' = Append(sales, [id |-> tx[s].sale_id,
                               cashier_id |-> get_current_user(s).id,
                               cashier_name |-> get_current_user(s).full_name,
                               sale_date |-> tx[s].sale_date,
                               grand_total |-> tx[s].grand_total])
    /\ sale_items' = sale_items \o tx[s].items
    /\ handed' = Append(handed, cart[s])
    /\ write_lock' = NoLock
    /\ tx' = [tx EXCEPT ![s] = NoTx]
    /\ before' = [before EXCEPT ![s] = [p \in ProductIds |-> NoRow]]
    /\ result' = [result EXCEPT ![s] = SaleResult(tx[s].sale_id)]
    /\ pc' = [pc EXCEPT ![s] = "building"]
    /\ UNCHANGED <<products, cart, idx, started, edit, total, deduct, deducted, back_office,
                   session, last_receipt, receipts, reprinted>>
    /\ print_jobs' = [print_jobs EXCEPT ![s] = @ \cup {get_sale_details(Len(sales))'}]

\* create_sale: conn.commit() and return sale_id; complete_sale clears the cart,
\* refreshes the table and the total, reads the sale back with get_sale_details
\* and starts the thread that prints its receipt.
commit_sale(s) ==
    /\ pc[s] = "commit"
    /\ sales' = Append(sales, [id |-> tx[s].sale_id,
                               cashier_id |-> get_current_user(s).id,
                               cashier_name |-> get_current_user(s).full_name,
                               sale_date |-> tx[s].sale_date,
                               grand_total |-> tx[s].grand_total])
    /\ sale_items' = sale_items \o tx[s].items
    /\ handed' = Append(handed, cart[s])
    /\ write_lock' = NoLock
    /\ tx' = [tx EXCEPT ![s] = NoTx]
    /\ before' = [before EXCEPT ![s] = [p \in ProductIds |-> NoRow]]
    /\ result' = [result EXCEPT ![s] = SaleResult(tx[s].sale_id)]
    /\ cart' = [cart EXCEPT ![s] = <<>>]
    /\ total' = [total EXCEPT ![s] = refresh_cart(cart'[s])]
    /\ pc' = [pc EXCEPT ![s] = "building"]
    /\ UNCHANGED <<products, idx, started, edit, deduct, deducted, back_office,
                   session, last_receipt, receipts, reprinted>>
    /\ print_jobs' = [print_jobs EXCEPT ![s] = @ \cup {get_sale_details(Len(sales))'}]

\* create_sale: any statement on the connection of the sale, or its commit, raises
\* (an I/O error, a full disk): "except Exception: conn.rollback(); return None".
storage_failure(s) ==
    /\ pc[s] \in {"insert_sale", "insert_items", "update_inventory", "commit"}
    /\ sale_failed(s)

\* ------------------------------------------------------------- direct deductions
\* update_inventory_after_sale called on its own: execute_transaction connects and
\* executes the UPDATE, which takes the write lock.
deduct_execute(s, p, quantity) ==
    /\ deduct[s].pc = "idle"
    /\ write_lock = NoLock
    /\ products[p].quantity_sold + quantity <= MaxDeducted
    /\ write_lock' = s
    /\ deduct' = [deduct EXCEPT ![s] = [pc |-> "executed", product_id |-> p,
                                        quantity |-> quantity, returned |-> "None"]]
    /\ UNCHANGED <<store, cart, pc, idx, tx, result, started, before, handed, edit,
                   total, deducted, back_office, till>>

\* execute_transaction: the UPDATE finds the write lock held until the busy
\* timeout, "except Exception: conn.rollback(); return False".
deduct_locked(s, p, quantity) ==
    /\ deduct[s].pc = "idle"
    /\ write_lock # NoLock
    /\ busy_timeout_expires
    /\ deduct' = [deduct EXCEPT ![s] = [pc |-> "idle", product_id |-> p,
                                        quantity |-> quantity, returned |-> "False"]]
    /\ UNCHANGED <<store, write_lock, cart, pc, idx, tx, result, started, before,
                   handed, edit, total, deducted, back_office, till>>

\* execute_transaction: conn.commit() and return True.
deduct_commit(s) ==
    /\ deduct[s].pc = "executed"
    /\ products' = update_quantity_sold(products, deduct[s].product_id,
                                        deduct[s].quantity)
    /\ write_lock' = NoLock
    /\ deduct' = [deduct EXCEPT ![s].pc = "idle", ![s].returned = "True"]
    /\ deducted' = [deducted EXCEPT ![deduct[s].product_id] = @ + deduct[s].quantity]
    /\ UNCHANGED <<sales, sale_items, cart, pc, idx, tx, result, started, before,
                   handed, edit, total, back_office, till>>

\* execute_transaction: the commit raises, the transaction is rolled back and the
\* call returns False.
deduct_failure(s) ==
    /\ deduct[s].pc = "executed"
    /\ write_lock' = NoLock
    /\ deduct' = [deduct EXCEPT ![s].pc = "idle", ![s].returned = "False"]
    /\ UNCHANGED <<store, cart, pc, idx, tx, result, started, before, handed, edit,
                   total, deducted, back_office, till>>

\* ------------------------------------------------------------- receipts
\* The thread _print_async that complete_sale started for a sale: print_receipt
\* sets _last_receipt_data = sale_data and writes the receipt (print_to_file).
print_receipt(s, sale_data) ==
    /\ sale_data \in print_jobs[s]
    /\ print_jobs' = [print_jobs EXCEPT ![s] = @ \ {sale_data}]
    /\ last_receipt' = [last_receipt EXCEPT ![s] = sale_data]
    /\ receipts' = [receipts EXCEPT ![s] = @ \cup {sale_data.sale_id}]
    /\ UNCHANGED <<store, write_lock, cart, pc, idx, tx, result, started, before, handed,
                   edit, total, deduct, deducted, back_office, session, reprinted>>

\* reprint_receipt, the button of an admin: reprint_last_receipt returns
\* (False, "No receipt to reprint") when _last_receipt_data is None and the
\* outcome of print_receipt(_last_receipt_data) otherwise.
reprint_last_receipt(s) ==
    /\ pc[s] = "building"
    /\ get_current_user(s).role = "admin"
    /\ IF last_receipt[s] = NoReceipt
       THEN /\ reprinted' = [reprinted EXCEPT ![s] =
                                [success |-> FALSE, msg |-> "No receipt to reprint",
                                 sale_id |-> 0]]
            /\ UNCHANGED receipts
       ELSE /\ reprinted' = [reprinted EXCEPT ![s] =
                                [success |-> TRUE, msg |-> "Receipt saved",
                                 sale_id |-> last_receipt[s].sale_id]]
            /\ receipts' = [receipts EXCEPT ![s] = @ \cup {last_receipt[s].sale_id}]
    /\ UNCHANGED <<store, write_lock, cart, pc, idx, tx, result, started, before, handed,
                   edit, total, deduct, deducted, back_office, session, print_jobs,
                   last_receipt>>

\* auth.logout in the process of register s, its window idle.
session_logout(s) ==
    /\ pc[s] = "building"
    /\ session[s] # NoUser
    /\ session' = [session EXCEPT ![s] = NoUser]
    /\ UNCHANGED <<store, write_lock, cart, pc, idx, tx, result, started, before, handed,
                   edit, total, deduct, deducted, back_office, print_jobs, last_receipt,
                   receipts, reprinted>>

\* ------------------------------------------------------------- inventory management
\* edit_product, up to get_product and the check of the new stock level.
edit_product_read(p, data, quantity_stocked) ==
    /\ ~edit.active
    /\ get_product(p).present
    /\ quantity_stocked - get_product(p).quantity_sold >= 0
    /\ edit' = [active |-> TRUE, product_id |-> p, quantity_stocked |-> quantity_stocked,
                quantity_available |-> quantity_stocked - get_product(p).quantity_sold,
                data |-> data]
    /\ UNCHANGED <<store, write_lock, cart, pc, idx, tx, result, started, before, handed,
                   total, deduct, deducted, back_office, till>>

\* The row of an edited product with the units sold that the edit read written
\* back along with the other columns.
UpdatedRow_writes_quantity_sold(row, e) ==
    [row EXCEPT !.name = e.data.name,
                !.milliliters = e.data.milliliters,
                !.cost_price = e.data.cost_price,
                !.selling_price = e.data.selling_price,
                !.profit = e.data.selling_price - e.data.cost_price,
                !.quantity_stocked = e.quantity_stocked,
                !.quantity_sold = e.quantity_stocked - e.quantity_available,
                !.quantity_available = e.quantity_available]

\* edit_product: "UPDATE products SET name = ?, description = ?, milliliters = ?,
\* cost_price = ?, selling_price = ?, profit = ?, quantity_stocked = ?,
\* quantity_available = ? WHERE id = ?" on a row.
UpdatedRow(row, e) ==
    [row EXCEPT !.name = e.data.name,
                !.milliliters = e.data.milliliters,
                !.cost_price = e.data.cost_price,
                !.selling_price = e.data.selling_price,
                !.profit = e.data.selling_price - e.data.cost_price,
                !.quantity_stocked = e.quantity_stocked,
                !.quantity_available = e.quantity_available]

\* edit_product: the UPDATE and its commit.  With the write lock held the UPDATE
\* raises after the busy timeout and the product is left as it was.
edit_product_write ==
    /\ edit.active
    /\ write_lock = NoLock \/ busy_timeout_expires
    /\ products' = IF write_lock = NoLock /\ products[edit.product_id].present
                   THEN [products EXCEPT ![edit.product_id] = UpdatedRow(@, edit)]
                   ELSE products
    /\ overtaken' = IF write_lock = NoLock /\ products[edit.product_id].present
                    THEN products[edit.product_id].quantity_sold
                             - (edit.quantity_stocked - edit.quantity_available)
                    ELSE 0
    /\ edit' = NoEdit
    /\ UNCHANGED <<sales, sale_items, write_lock, cart, pc, idx, tx, result, started, before, handed,
                   total, deduct, deducted,
                   users, current_user, startup, added, clock, report, till>>

\* The deletion of a product taking the sale items that refer to it along.
delete_product_cascades(p) ==
    /\ products[p].present
    /\ write_lock = NoLock
    /\ products' = [products EXCEPT ![p] = NoRow]
    /\ sale_items' = SelectSeq(sale_items, LAMBDA r : r.product_id # p)
    /\ UNCHANGED <<sales, write_lock, cart, pc, idx, tx, result, started,
                   before, handed, edit, total, deduct, deducted, back_office, till>>

\* delete_product: DELETE FROM products WHERE id = ?; commit (foreign keys are
\* not enforced: PRAGMA foreign_keys is never set).
delete_product(p) ==
    /\ products[p].present
    /\ write_lock = NoLock
    /\ products' = [products EXCEPT ![p] = NoRow]
    /\ UNCHANGED <<sales, sale_items, write_lock, cart, pc, idx, tx, result, started,
                   before, handed, edit,
                   total, deduct, deducted, back_office, till>>

\* ------------------------------------------------------------- adding products
\* The message box of add_product after its INSERT raised.
AddFailed(p, e) ==
    [kind |-> "Error", product_id |-> p, text |-> e]

\* The message box of add_product after its commit.
AddSucceeded(p) ==
    [kind |-> "Success", product_id |-> p, text |-> "Product added successfully"]

\* An add that writes its row over the row of an id that is taken already.
add_product_replaces(p, data, quantity_stocked) ==
    /\ write_lock = NoLock
    /\ products' = [products EXCEPT ![p] = ProductRow(data, quantity_stocked)]
    /\ added' = AddSucceeded(p)
    /\ UNCHANGED <<sales, sale_items, write_lock, cart, pc, idx, tx, result, started,
                   before, handed, edit, total, deduct, deducted,
                   users, current_user, startup, overtaken, clock, report, till>>

\* add_product: "INSERT INTO products (id, ..., profit, quantity_stocked,
\* quantity_available)", commit and the message box.  The INSERT asks for the
\* write lock before it looks at the rows: with the lock held it raises "database
\* is locked" after the busy timeout, and with the lock free and the id taken
\* (id TEXT PRIMARY KEY) it raises the integrity error.
add_product(p, data, quantity_stocked) ==
    /\ write_lock = NoLock \/ busy_timeout_expires
    /\ IF write_lock # NoLock
       THEN /\ added' = AddFailed(p, "database is locked")
            /\ UNCHANGED products
       ELSE IF products[p].present
       THEN /\ added' = AddFailed(p, "UNIQUE constraint failed: products.id")
            /\ UNCHANGED products
       ELSE /\ products' = [products EXCEPT ![p] = ProductRow(data, quantity_stocked)]
            /\ added' = AddSucceeded(p)
    /\ UNCHANGED <<sales, sale_items, write_lock, cart, pc, idx, tx, result, started,
                   before, handed, edit, total, deduct, deducted,
                   users, current_user, startup, overtaken, clock, report, till>>

\* ------------------------------------------------------------- users
MaxUsers == 2

UserNames == {"admin", "cashier"}
Passwords == {"admin123", "till"}
Roles == {"admin", "cashier"}

\* The rows of the users table with role admin.
Admins(table) == {i \in 1..Len(table) : table[i].role = "admin"}

\* is_admin
is_admin == current_user.role = "admin"

\* init_db: the tables are created if they do not exist; "SELECT COUNT(*) FROM
\* users WHERE role = 'admin'" and, when it is 0, the INSERT of the default admin.
\* The INSERT raises when the username admin is taken (username TEXT UNIQUE) or
\* the write lock is held; init_db rolls back and raises, and main shows
\* "Failed to initialize database" and exits.
init_db ==
    /\ IF Admins(users) # {}
       THEN /\ users' = users
            /\ startup' = "ok"
       ELSE IF write_lock # NoLock
                 \/ \E i \in 1..Len(users) : users[i].username = "admin"
       THEN /\ users' = users
            /\ startup' = "error"
       ELSE /\ users' = Append(users, DefaultAdmin(Len(users) + 1))
            /\ startup' = "ok"
    /\ UNCHANGED <<store, write_lock, cart, pc, idx, tx, result, started, before,
                   handed, edit, total, deduct, deducted,
                   current_user, added, overtaken, clock, report, till>>

\* login: (success, user_dict, error_message)
login(username, password) ==
    LET rows == {i \in 1..Len(users) :
                    users[i].username = username /\ users[i].is_active = 1}
        row == users[CHOOSE i \in rows : TRUE]
    IN  IF rows = {} \/ ~verify_password(password, row.password_hash)
        THEN [success |-> FALSE, user |-> NoUser,
              msg |-> "Invalid username or password"]
        ELSE [success |-> TRUE,
              user |-> [id |-> row.id, username |-> row.username,
                        role |-> row.role, full_name |-> row.full_name],
              msg |-> ""]

\* LoginWindow.attempt_login: a login that succeeds sets the current user, one
\* that fails leaves the login dialog open.
attempt_login(username, password) ==
    /\ startup = "ok"
    /\ current_user = NoUser
    /\ login(username, password).success
    /\ current_user' = login(username, password).user
    /\ UNCHANGED <<store, write_lock, cart, pc, idx, tx, result, started, before,
                   handed, edit, total, deduct, deducted,
                   users, startup, added, overtaken, clock, report, till>>

\* logout
logout ==
    /\ current_user # NoUser
    /\ current_user' = NoUser
    /\ UNCHANGED <<store, write_lock, cart, pc, idx, tx, result, started, before,
                   handed, edit, total, deduct, deducted,
                   users, startup, added, overtaken, clock, report, till>>

\* create_user, called by UsersWindow.add_user: a username that is taken raises
\* the integrity error and nothing is inserted.
create_user(username, password, role, full_name) ==
    /\ is_admin
    /\ Len(users) < MaxUsers
    /\ write_lock = NoLock
    /\ \A i \in 1..Len(users) : users[i].username # username
    /\ users' = Append(users, UserRow(Len(users) + 1, username, password, role,
                                      full_name))
    /\ UNCHANGED <<store, write_lock, cart, pc, idx, tx, result, started, before,
                   handed, edit, total, deduct, deducted,
                   current_user, startup, added, overtaken, clock, report, till>>

\* UsersWindow.edit_user: "UPDATE users SET full_name = ?, role = ?, is_active = ?
\* WHERE id = ?" of any row, that of the admin who is editing included.
edit_user(user_id, role, is_active) ==
    /\ is_admin
    /\ user_id \in 1..Len(users)
    /\ write_lock = NoLock
    /\ users' = [users EXCEPT ![user_id].role = role,
                              ![user_id].is_active = is_active]
    /\ UNCHANGED <<store, write_lock, cart, pc, idx, tx, result, started, before,
                   handed, edit, total, deduct, deducted,
                   current_user, startup, added, overtaken, clock, report, till>>

\* UsersWindow.delete_user: the row of another user is made inactive.
delete_user(user_id) ==
    /\ is_admin
    /\ user_id \in 1..Len(users)
    /\ current_user.id # user_id
    /\ write_lock = NoLock
    /\ users' = [users EXCEPT ![user_id].is_active = 0]
    /\ UNCHANGED <<store, write_lock, cart, pc, idx, tx, result, started, before,
                   handed, edit, total, deduct, deducted,
                   current_user, startup, added, overtaken, clock, report, till>>

\* ChangePasswordDialog.change_password: the current user, having entered the
\* current password, gets a new one.
change_password(current_password, new_password) ==
    /\ current_user # NoUser
    /\ write_lock = NoLock
    /\ verify_password(current_password, users[current_user.id].password_hash)
    /\ users' = [users EXCEPT ![current_user.id].password_hash =
                                  hash_password(new_password)]
    /\ UNCHANGED <<store, write_lock, cart, pc, idx, tx, result, started, before,
                   handed, edit, total, deduct, deducted,
                   current_user, startup, added, overtaken, clock, report, till>>

\* ------------------------------------------------------------- reports
MaxDay == 2

Days == 1..MaxDay

\* CURRENT_TIMESTAMP passes midnight.
tick ==
    /\ clock < MaxDay
    /\ clock' = clock + 1
    /\ UNCHANGED <<store, write_lock, cart, pc, idx, tx, result, started, before,
                   handed, edit, total, deduct, deducted,
                   users, current_user, startup, added, overtaken, report, till>>

\* generate_report: the sales of "WHERE DATE(s.sale_date) BETWEEN DATE(?) AND
\* DATE(?)", as committed.
SalesInRange(start, end) ==
    SelectSeq(sales, LAMBDA r : r.sale_date >= start /\ r.sale_date <= end)

\* generate_report: "COUNT(si.id) ... LEFT JOIN sale_items si ON s.id = si.sale_id"
item_count(sale_id) == Len(SelectSeq(sale_items, LAMBDA r : r.sale_id = sale_id))

\* The items of a sale with the cost at which the product was first entered.
ReportItems_cost_when_entered(sale_id) ==
    LET rows == SelectSeq(sale_items,
                          LAMBDA r : r.sale_id = sale_id /\ products[r.product_id].present)
    IN  [i \in 1..Len(rows) |->
            [product_id |-> rows[i].product_id,
             quantity |-> rows[i].quantity,
             unit_price |-> rows[i].unit_price,
             line_total |-> rows[i].line_total,
             cost_price |-> ShelfData(rows[i].product_id).cost_price]]

\* generate_report: "SELECT si.product_id, si.quantity, si.unit_price,
\* si.line_total, p.cost_price FROM sale_items si JOIN products p ON si.product_id
\* = p.id WHERE si.sale_id = ?": the items whose product has a row, with the cost
\* in that row.
ReportItems(sale_id) ==
    LET rows == SelectSeq(sale_items,
                          LAMBDA r : r.sale_id = sale_id /\ products[r.product_id].present)
    IN  [i \in 1..Len(rows) |->
            [product_id |-> rows[i].product_id,
             quantity |-> rows[i].quantity,
             unit_price |-> rows[i].unit_price,
             line_total |-> rows[i].line_total,
             cost_price |-> products[rows[i].product_id].cost_price]]

RECURSIVE sale_profit(_, _)
\* generate_report: "cost = item['cost_price'] * item['quantity']; sale_profit +=
\* item['line_total'] - cost" over the items from index i on.
sale_profit(items, i) ==
    IF i > Len(items) THEN 0
    ELSE (items[i].line_total - items[i].cost_price * items[i].quantity)
         + sale_profit(items, i + 1)

RECURSIVE sale_cost(_, _)
\* generate_report: sum(item['cost_price'] * item['quantity'] for item in items)
sale_cost(items, i) ==
    IF i > Len(items) THEN 0
    ELSE items[i].cost_price * items[i].quantity + sale_cost(items, i + 1)

RECURSIVE total_sales(_, _)
\* generate_report: "total_sales += sale['grand_total']", and SUM(grand_total), over
\* the rows from index i on.
total_sales(rows, i) ==
    IF i > Len(rows) THEN 0
    ELSE rows[i].grand_total + total_sales(rows, i + 1)

RECURSIVE total_cost(_, _)
total_cost(rows, i) ==
    IF i > Len(rows) THEN 0
    ELSE sale_cost(ReportItems(rows[i].id), 1) + total_cost(rows, i + 1)

RECURSIVE total_profit(_, _)
total_profit(rows, i) ==
    IF i > Len(rows) THEN 0
    ELSE sale_profit(ReportItems(rows[i].id), 1) + total_profit(rows, i + 1)

\* generate_report: the row of a sale in the table of the report.
ReportRow(sale) ==
    [id |-> sale.id,
     sale_date |-> sale.sale_date,
     cashier_name |-> sale.cashier_name,
     item_count |-> item_count(sale.id),
     grand_total |-> format_currency(sale.grand_total),
     profit |-> format_currency(sale_profit(ReportItems(sale.id), 1))]

\* view_transactions: the row of a sale in the table of a cashier's transactions.
\* Its items are read with the join of generate_report; "sale_cost =
\* sum(item['cost_price'] * item['quantity'] for item in items); sale_profit =
\* sale['grand_total'] - sale_cost".
TransactionRow(sale) ==
    [id |-> sale.id,
     sale_date |-> sale.sale_date,
     item_count |-> item_count(sale.id),
     grand_total |-> format_currency(sale.grand_total),
     cost |-> format_currency(sale_cost(ReportItems(sale.id), 1)),
     profit |-> format_currency(sale.grand_total - sale_cost(ReportItems(sale.id), 1))]

\* view_transactions: the table for the cashier selected, "WHERE s.cashier_id = ?".
view_transactions(user_id) ==
    LET rows == SelectSeq(sales, LAMBDA r : r.cashier_id = user_id)
    IN  {TransactionRow(rows[i]) : i \in 1..Len(rows)}

\* The cashier summary with the sales of the whole table in every row.
CashierRows_all_periods(rows) ==
    {[cashier_name |-> n,
      transaction_count |->
          Len(SelectSeq(sales, LAMBDA r : r.cashier_name = n)),
      total_sales |->
          format_currency(total_sales(SelectSeq(sales, LAMBDA r : r.cashier_name = n), 1))] :
        n \in {rows[i].cashier_name : i \in 1..Len(rows)}}

\* generate_report: "SELECT cashier_name, COUNT(*), SUM(grand_total) FROM sales
\* WHERE ... GROUP BY cashier_name" over the sales of the period.
CashierRows(rows) ==
    {[cashier_name |-> n,
      transaction_count |->
          Len(SelectSeq(rows, LAMBDA r : r.cashier_name = n)),
      total_sales |->
          format_currency(total_sales(SelectSeq(rows, LAMBDA r : r.cashier_name = n), 1))] :
        n \in {rows[i].cashier_name : i \in 1..Len(rows)}}

\* generate_report: the table, the summary labels and the cashier table for the
\* dates of the two date fields.
generate_report(start, end) ==
    /\ LET rows == SalesInRange(start, end)
       IN  report' = [generated |-> TRUE,
                      start |-> start,
                      end |-> end,
                      table |-> {ReportRow(rows[i]) : i \in 1..Len(rows)},
                      total_sales |-> format_currency(total_sales(rows, 1)),
                      transactions |-> Len(rows),
                      total_cost |-> format_currency(total_cost(rows, 1)),
                      total_profit |-> format_currency(total_profit(rows, 1)),
                      cashiers |-> CashierRows(rows)]
    /\ UNCHANGED <<store, write_lock, cart, pc, idx, tx, result, started, before,
                   handed, edit, total, deduct, deducted,
                   users, current_user, startup, added, overtaken, clock, till>>

\* ------------------------------------------------------------- specifications
\* The windows as they open: nothing in a cart, no sale yet and nothing in progress.
Opened ==
    /\ sales = <<>>
    /\ sale_items = <<>>
    /\ write_lock = NoLock
    /\ cart = [s \in Sessions |-> <<>>]
    /\ pc = [s \in Sessions |-> "building"]
    /\ idx = [s \in Sessions |-> 0]
    /\ tx = [s \in Sessions |-> NoTx]
    /\ result = [s \in Sessions |-> NoResult]
    /\ started = [s \in Sessions |-> 0]
    /\ before = [s \in Sessions |-> [p \in ProductIds |-> NoRow]]
    /\ handed = <<>>
    /\ edit = NoEdit
    /\ total = [s \in Sessions |-> 0]
    /\ deduct = [s \in Sessions |-> NoCall]
    /\ deducted = [p \in ProductIds |-> 0]
    /\ current_user = NoUser
    /\ added = NoMessage
    /\ overtaken = 0
    /\ clock = 1
    /\ report = NoReport
    /\ session = [s \in Sessions |-> LoggedIn(s)]
    /\ print_jobs = [s \in Sessions |-> {}]
    /\ last_receipt = [s \in Sessions |-> NoReceipt]
    /\ receipts = [s \in Sessions |-> {}]
    /\ reprinted = [s \in Sessions |-> NoReprint]

\* A shop in business: init_db has run, the staff have their users and every
\* product is stocked with nothing sold.
Init ==
    /\ \E stock \in [ProductIds -> Quantities] :
          products = [p \in ProductIds |-> ProductRow(ShelfData(p), stock[p])]
    /\ users = Staff
    /\ startup = "ok"
    /\ Opened

CartStep(s) ==
    \/ \E p \in ProductIds, q \in Quantities : add_item_to_cart(s, p, q)
    \/ \E row \in 1..NumProducts : remove_item_at_row(s, row)
    \/ cancel_sale(s)

\* The steps of a checkout in which no other connection holds the write lock.
UncontendedStep(s) ==
    \/ validate_line(s)
    \/ insert_sale(s)
    \/ insert_sale_items(s)
    \/ update_inventory(s)
    \/ commit_sale(s)

CheckoutStep(s) ==
    \/ UncontendedStep(s)
    \/ insert_sale_locked(s)

RegisterStep(s) ==
    \/ CartStep(s)
    \/ complete_sale(s)
    \/ CheckoutStep(s)
    \/ storage_failure(s)

SaleNext == \E s \in Sessions : RegisterStep(s)

\* The inventory window: the dialog of an edit is left with the name, volume and
\* price it loaded, and a new stock level is entered.
InventoryNext ==
    \/ \E p \in ProductIds, n \in StockLevels :
          edit_product_read(p, DataOf(get_product(p)), n)
    \/ edit_product_write
    \/ \E p \in ProductIds : delete_product(p)

\* The registers: stock levels are changed by nothing but sales.
Spec == Init /\ [][SaleNext]_vars

\* One register and the inventory window.  The writes of the inventory window
\* commit at once, so the register never finds the write lock held.
InventoryRegisterNext ==
    \/ CartStep(1)
    \/ complete_sale(1)
    \/ UncontendedStep(1)
    \/ storage_failure(1)

InventorySpec == Init /\ [][InventoryRegisterNext \/ InventoryNext]_vars

\* The registers, each running a checkout it has started to its end: every step of
\* complete_sale and create_sale is a call that returns.
\* The registers start with one unit of every product left.
InitLastUnits == Init /\ \A p \in ProductIds : products[p].quantity_stocked = 1

FairSpec ==
    /\ InitLastUnits
    /\ [][SaleNext]_vars
    /\ \A s \in Sessions : WF_vars(CheckoutStep(s))

\* The callers of update_inventory_after_sale, each call run on its own connection.
DeductionNext ==
    \E s \in Sessions :
        \/ \E p \in ProductIds, q \in Quantities : deduct_execute(s, p, q)
        \/ \E p \in ProductIds, q \in Quantities : deduct_locked(s, p, q)
        \/ deduct_commit(s)
        \/ deduct_failure(s)

DeductionSpec == Init /\ [][DeductionNext]_vars

\* The inventory window changing the name, volume and price of a product, its
\* stock level left as the dialog loaded it.
CatalogNext ==
    \/ \E p \in ProductIds, data \in ProductData :
          edit_product_read(p, data, get_product(p).quantity_stocked)
    \/ edit_product_write
    \/ \E p \in ProductIds : delete_product(p)

\* One register and the inventory window, with one unit of every product.
CatalogSpec == InitLastUnits /\ [][InventoryRegisterNext \/ CatalogNext]_vars

\* A register building its cart, every outcome of an add included, while the
\* inventory window changes stock levels and deletes products.  A cart is a list
\* in the memory of its own window: the carts of other registers play no part.
CartNext ==
    \/ CartStep(1)
    \/ \E p \in ProductIds, q \in Quantities : add_item_rejected(1, p, q)
    \/ InventoryNext

CartSpec == Init /\ [][CartNext]_vars

\* A caller of update_inventory_after_sale for products on the shelf, whose calls
\* find the write lock free.
DeductionCall ==
    \/ \E p \in ProductIds, q \in Quantities :
          products[p].present /\ deduct_execute(1, p, q)
    \/ deduct_commit(1)

\* The stockroom: units are deducted while the inventory window changes stock
\* levels.
StockroomNext ==
    \/ DeductionCall
    \/ \E p \in ProductIds, n \in StockLevels :
          edit_product_read(p, DataOf(get_product(p)), n)
    \/ edit_product_write

StockroomSpec == InitLastUnits /\ [][StockroomNext]_vars

\* A register adding items to its cart, every outcome of an add included, while
\* units are deducted and products are deleted.
AvailabilityNext ==
    \/ \E p \in ProductIds, q \in Quantities : add_item_to_cart(1, p, q)
    \/ \E p \in ProductIds, q \in Quantities : add_item_rejected(1, p, q)
    \/ DeductionCall
    \/ \E p \in ProductIds : delete_product(p)

AvailabilitySpec == Init /\ [][AvailabilityNext]_vars

\* A register that has put every product into its cart.
InitFullCart ==
    /\ \E stock \in [ProductIds -> Quantities] :
          /\ products = [p \in ProductIds |-> ProductRow(ShelfData(p), stock[p])]
          /\ cart = [s \in Sessions |->
                        IF s = 1
                        THEN [p \in ProductIds |->
                                 [product_id |-> p,
                                  product_name |-> ShelfData(p).name,
                                  quantity |-> stock[p],
                                  unit_price |-> ShelfData(p).selling_price,
                                  line_total |->
                                      calculate_line_total(ShelfData(p).selling_price,
                                                           stock[p])]]
                        ELSE <<>>]
    /\ total = [s \in Sessions |-> refresh_cart(cart[s])]
    /\ users = Staff
    /\ startup = "ok"
    /\ sales = <<>>
    /\ sale_items = <<>>
    /\ write_lock = NoLock
    /\ pc = [s \in Sessions |-> "building"]
    /\ idx = [s \in Sessions |-> 0]
    /\ tx = [s \in Sessions |-> NoTx]
    /\ result = [s \in Sessions |-> NoResult]
    /\ started = [s \in Sessions |-> 0]
    /\ before = [s \in Sessions |-> [p \in ProductIds |-> NoRow]]
    /\ handed = <<>>
    /\ edit = NoEdit
    /\ deduct = [s \in Sessions |-> NoCall]
    /\ deducted = [p \in ProductIds |-> 0]
    /\ current_user = NoUser
    /\ added = NoMessage
    /\ overtaken = 0
    /\ clock = 1
    /\ report = NoReport
    /\ session = [s \in Sessions |-> LoggedIn(s)]
    /\ print_jobs = [s \in Sessions |-> {}]
    /\ last_receipt = [s \in Sessions |-> NoReceipt]
    /\ receipts = [s \in Sessions |-> {}]
    /\ reprinted = [s \in Sessions |-> NoReprint]

\* The register taking lines out of its cart, by rows in and out of range, while
\* the inventory window changes stock levels and deletes products.
RemovalNext ==
    \/ \E row \in 0..(NumProducts + 1) : remove_item_at_row(1, row)
    \/ InventoryNext

RemovalSpec == InitFullCart /\ [][RemovalNext]_vars

\* One register whose user session can end while its window is open, and the
\* inventory window deleting products.
SessionNext ==
    \/ InventoryRegisterNext
    \/ session_logout(1)
    \/ \E p \in ProductIds : delete_product(p)

SessionSpec == InitLastUnits /\ [][SessionNext]_vars

\* The register of an admin selling while the print threads of its sales run and
\* the last receipt is reprinted.
ReceiptNext ==
    \/ \E p \in ProductIds, q \in Quantities : add_item_to_cart(1, p, q)
    \/ complete_sale(1)
    \/ UncontendedStep(1)
    \/ \E sale_data \in print_jobs[1] : print_receipt(1, sale_data)
    \/ reprint_last_receipt(1)

ReceiptSpec == Init /\ [][ReceiptNext]_vars

\* A shelf with room for one more product: the last product id is not entered yet.
InitShelfSpace ==
    /\ products = [p \in ProductIds |->
                      IF p = NumProducts THEN NoRow
                      ELSE ProductRow(ShelfData(p), MaxStock)]
    /\ users = Staff
    /\ startup = "ok"
    /\ Opened

\* The inventory window entering products under new and under used ids while
\* units are deducted.
AddNext ==
    \E p \in ProductIds, n \in StockLevels : add_product(p, ShelfData(p), n)

EntrySpec == InitShelfSpace /\ [][DeductionCall \/ AddNext]_vars

\* A database file that has just been created: no table has a row and init_db
\* has not run.
InitFresh ==
    /\ products = [p \in ProductIds |-> NoRow]
    /\ users = <<>>
    /\ startup = "none"
    /\ Opened

\* The back office from the first start of the application on: init_db at every
\* start, the login window, user management and the change of passwords, and
\* products added and deleted by an admin.
UsersNext ==
    \/ init_db
    \/ \E u \in UserNames, w \in Passwords : attempt_login(u, w)
    \/ logout
    \/ \E u \in UserNames, w \in Passwords, r \in Roles :
          create_user(u, w, r, IF u = "admin" THEN "Administrator" ELSE "Cashier")
    \/ \E i \in 1..MaxUsers, r \in Roles, a \in {0, 1} : edit_user(i, r, a)
    \/ \E i \in 1..MaxUsers : delete_user(i)
    \/ \E w, n \in Passwords : change_password(w, n)
    \/ \E p \in ProductIds : is_admin /\ add_product(p, ShelfData(p), 1)
    \/ \E p \in ProductIds : is_admin /\ delete_product(p)

UsersSpec == InitFresh /\ [][UsersNext]_vars

\* The registers selling their last units, the days passing and the reports
\* window generating reports for every choice of its two dates.
SellStep(s) ==
    \/ \E p \in ProductIds, q \in Quantities : add_item_to_cart(s, p, q)
    \/ complete_sale(s)
    \/ UncontendedStep(s)

ReportNext ==
    \/ \E start, end \in Days : generate_report(start, end)
    \/ tick

PeriodSpec ==
    InitLastUnits
    /\ [][(\E s \in Sessions : SellStep(s) \/ insert_sale_locked(s)) \/ ReportNext]_vars

\* One register selling, the inventory window changing the name, volume, cost and
\* price of products and deleting products, and the reports window.
\* The register makes one sale; the report is that of the period "Day".
ProfitNext ==
    \/ \E p \in ProductIds, q \in Quantities : add_item_to_cart(1, p, q)
    \/ sales = <<>> /\ complete_sale(1)
    \/ UncontendedStep(1)
    \/ CatalogNext
    \/ generate_report(clock, clock)

ProfitSpec == InitLastUnits /\ [][ProfitNext]_vars


\* ------------------------------------------------------------- vocabulary of the properties
InCreateSale == {"insert_sale", "insert_items", "update_inventory", "commit"}

\* The step in which the create_sale of session s returns.
Returns(s) == pc[s] \in InCreateSale /\ pc'[s] = "building"

\* The step in which create_sale of session s commits and returns the sale id.
ReturnsSale(s) == pc[s] = "commit" /\ result'[s].kind = "Sale"

\* The step in which session s makes one turn of the validation loop.
Validates(s) == pc[s] = "validate" /\ (pc'[s] # "validate" \/ idx'[s] # idx[s])

\* The step in which session s makes one turn of the deduction loop.
Deducts(s) ==
    pc[s] = "update_inventory" /\ (pc'[s] # "update_inventory" \/ idx'[s] # idx[s])

\* The product and quantity of every row, in order.
Lines(rows) ==
    [i \in 1..Len(rows) |->
        [product_id |-> rows[i].product_id, quantity |-> rows[i].quantity]]

RECURSIVE SumQuantities(_, _, _)
\* Units of product p in the rows from index i on.
SumQuantities(rows, p, i) ==
    IF i > Len(rows) THEN 0
    ELSE (IF rows[i].product_id = p THEN rows[i].quantity ELSE 0)
         + SumQuantities(rows, p, i + 1)

\* Units of product p sold by the committed sales.
ItemsSold(p) == SumQuantities(sale_items, p, 1)

\* Units of product p in sale sale_id.
SoldIn(sale_id, p) == SumQuantities(get_sale_details(sale_id).items, p, 1)

\* The line of product p in cart c has quantity q.
HoldsLine(c, p, q) == LineOf(c, p, 1) # 0 /\ c[LineOf(c, p, 1)].quantity = q

\* ------------------------------------------------------------- properties
\* C1  Atomicity of commit: when create_sale returns, whether with a sale id or
\* after a failure at any point, the store holds either all of the sale header,
\* every sale item of the cart and the quantity_sold increment of every cart
\* line, or none of them.
CommitAllOrNothing ==
    [][\A s \in Sessions :
          Returns(s) =>
              LET base == IF tx[s].open THEN before[s] ELSE products
                  all ==
                      /\ Len(sales') = Len(sales) + 1
                      /\ get_sale_details(Len(sales))'.found
                      /\ Lines(get_sale_details(Len(sales))'.items) = Lines(cart[s])
                      /\ \A i \in 1..Len(cart[s]) :
                            products'[cart[s][i].product_id].quantity_sold =
                                base[cart[s][i].product_id].quantity_sold
                                    + cart[s][i].quantity
                  none ==
                      /\ sales' = sales
                      /\ sale_items' = sale_items
                      /\ \A i \in 1..Len(cart[s]) :
                            products'[cart[s][i].product_id].quantity_sold =
                                base[cart[s][i].product_id].quantity_sold
              IN  all \/ none]_vars

\* C2  No oversell under concurrency: for a product with quantity_available = N,
\* N >= 1, two sessions that each hold a cart for N units of it and run their
\* checkouts at overlapping times (each began before the other's sale was
\* committed) never both obtain a sale id.
NoOversellOfLastUnits ==
    \A p \in ProductIds : \A s, t \in Sessions :
        LET N == products[p].quantity_stocked
        IN  ~ /\ s # t
              /\ products[p].present
              /\ N >= 1
              /\ result[s].kind = "Sale"
              /\ result[t].kind = "Sale"
              /\ started[s] < result[t].sale_id
              /\ started[t] < result[s].sale_id
              /\ SoldIn(result[s].sale_id, p) = N
              /\ SoldIn(result[t].sale_id, p) = N

\* C3  Stock invariant: whatever the registers do, every product has
\* quantity_stocked - quantity_sold >= 0.
StockNeverNegative ==
    \A p \in ProductIds :
        products[p].present => quantity_available(products[p]) >= 0

\* Two registers have each committed a sale of the same product.
TwoRegistersSoldSameProduct ==
    \E p \in ProductIds :
        /\ Len(sales) = 2
        /\ sales[1].cashier_id # sales[2].cashier_id
        /\ SoldIn(1, p) >= 1
        /\ SoldIn(2, p) >= 1

\* C4  Deduction on success: when a checkout returns a sale id, every product of
\* the cart has its quantity_sold increased by exactly the quantity of its cart
\* line and its quantity_available decreased by the same amount.
DeductionOnSuccess ==
    [][\A s \in Sessions :
          ReturnsSale(s) =>
              \A i \in 1..Len(cart[s]) :
                  LET p == cart[s][i].product_id
                  IN  /\ products'[p].quantity_sold =
                             before[s][p].quantity_sold + cart[s][i].quantity
                      /\ quantity_available(products'[p]) =
                             quantity_available(before[s][p]) - cart[s][i].quantity]_vars

\* Session s has checked the availability of product p and has not yet made its
\* deduction of p.
BetweenCheckAndDeduction(s, p) ==
    LET i == LineOf(cart[s], p, 1)
    IN  /\ i # 0
        /\ \/ pc[s] = "validate" /\ i < idx[s]
           \/ pc[s] \in {"insert_sale", "insert_items"}
           \/ pc[s] = "update_inventory" /\ i >= idx[s]

\* The step is a read (the availability check) or a write (the deduction) of the
\* stock counters of product p by the checkout of session t.
TouchesCounters(t, p) ==
    /\ Validates(t) \/ Deducts(t)
    /\ cart[t][idx[t]].product_id = p

\* C5  Commit serialization: between a commit's availability check of a product
\* and its deduction of that product, no other commit reads or writes that
\* product's stock counters.
CommitsSerialized ==
    [][\A s, t \in Sessions : \A p \in ProductIds :
          (s # t /\ BetweenCheckAndDeduction(s, p)) => ~TouchesCounters(t, p)]_vars

\* The cart line that session s is about to validate asks for a product that no
\* longer exists or for more than its quantity_available.
LineFailsValidation(s) ==
    LET item == cart[s][idx[s]]
        row == products[item.product_id]
    IN  \/ ~row.present
        \/ item.quantity > row.quantity_stocked - row.quantity_sold

\* C6  Validation abort: if at checkout a cart line requests more than the
\* product's current quantity_available, or its product no longer exists, the
\* checkout aborts with an error naming that product and carrying the reason,
\* and no sale header, no sale item and no quantity_sold change is written:
\* the store is as it was, no transaction was opened and the cart is kept.
ValidationAborts ==
    [][\A s \in Sessions :
          (Validates(s) /\ LineFailsValidation(s)) =>
              LET item == cart[s][idx[s]]
                  row == products[item.product_id]
              IN  /\ pc'[s] = "building"
                  /\ result'[s].kind = "StockError"
                  /\ result'[s].product_id = item.product_id
                  /\ result'[s].msg = IF row.present THEN "Insufficient stock"
                                      ELSE "Product not found"
                  /\ row.present =>
                        result'[s].available = row.quantity_stocked - row.quantity_sold
                  /\ store' = store
                  /\ tx'[s] = NoTx
                  /\ write_lock' # s
                  /\ cart'[s] = cart[s]]_vars

\* A checkout was aborted at the second line of its cart, for insufficient stock,
\* after the first line had passed.
AbortedOnSecondLine ==
    \E s \in Sessions :
        /\ pc[s] = "building"
        /\ result[s].kind = "StockError"
        /\ result[s].msg = "Insufficient stock"
        /\ Len(cart[s]) = 2
        /\ result[s].product_id = cart[s][2].product_id
        /\ sales = <<>>

\* C7  Authoritative re-validation: checkout validates each line against the
\* availability left by the sales persisted so far; a line that requests more
\* units than the committed sales of other sessions have left of the stock is
\* rejected.
RevalidationRejectsSoldOut ==
    [][\A s \in Sessions :
          LET item == cart[s][idx[s]]
              p == item.product_id
          IN  (/\ Validates(s)
               /\ products[p].present
               /\ item.quantity > products[p].quantity_stocked - ItemsSold(p))
              => (pc'[s] = "building" /\ result'[s].kind = "StockError")]_vars

\* C8  No half-applied sale is observable: what a reader on another connection
\* sees (the committed tables) never holds a sale header without all of its
\* items, a persisted sale whose stock deductions are missing, or stock
\* deductions whose sale is not persisted.
NoHalfAppliedSale ==
    /\ Len(handed) = Len(sales)
    /\ \A id \in 1..Len(sales) :
          /\ get_sale_details(id).found
          /\ Lines(get_sale_details(id).items) = Lines(handed[id])
    /\ \A p \in ProductIds :
          products[p].present => products[p].quantity_sold = ItemsSold(p)

\* C9  Retry safety: a checkout that fails with a storage error leaves the
\* persisted state as it was, and the retry of the same cart that succeeds adds
\* exactly one sale, that of the cart, and increases each product's
\* quantity_sold by the cart quantity exactly once.
RetryIsSafe ==
    [][\A s \in Sessions :
          /\ (Returns(s) /\ result'[s].kind = "Failed") =>
                 /\ store' = store
                 /\ tx[s].open => products = before[s]
          /\ (ReturnsSale(s) /\ result[s].kind = "Failed") =>
                 /\ Len(sales') = Len(sales) + 1
                 /\ Lines(get_sale_details(Len(sales))'.items) = Lines(cart[s])
                 /\ \A i \in 1..Len(cart[s]) :
                       products'[cart[s][i].product_id].quantity_sold =
                           before[s][cart[s][i].product_id].quantity_sold
                               + cart[s][i].quantity]_vars

\* C10  Commit termination: every create_sale that has been called eventually
\* returns, with a sale id or with an error, whatever the other sessions do; no
\* wait for the write lock lasts forever and no commit keeps the write lock
\* forever.
CommitTerminates ==
    \A s \in Sessions :
        /\ (pc[s] \in InCreateSale) ~> (pc[s] = "building")
        /\ (write_lock = s) ~> (write_lock # s)

\* A session waits to insert its sale while the other holds the write lock and is
\* in its deduction loop.
WaitsForWriteLock ==
    \E s, t \in Sessions :
        /\ pc[s] = "insert_sale"
        /\ write_lock = t
        /\ pc[t] = "update_inventory"

\* C11  No lost update on stock deduction: whatever the interleaving of the calls
\* of update_inventory_after_sale, the quantity_sold of a product is its initial
\* value (0) plus the quantities of the calls on it that returned True, and a
\* call that returns False changes nothing.
NoLostDeduction ==
    /\ [](\A p \in ProductIds :
             products[p].present => products[p].quantity_sold = deducted[p])
    /\ [][\A s \in Sessions :
             (deduct'[s] # deduct[s] /\ deduct'[s].returned = "False") =>
                 store' = store]_vars

\* The calls of two callers on the same product have both returned True and the
\* counter holds the sum of their quantities.
TwoDeductionsApplied ==
    \E p \in ProductIds : \E s, t \in Sessions :
        /\ s # t
        /\ deduct[s].returned = "True" /\ deduct[s].product_id = p
        /\ deduct[t].returned = "True" /\ deduct[t].product_id = p
        /\ products[p].quantity_sold = deduct[s].quantity + deduct[t].quantity

\* The cart lines and the sale items agree on product, quantity, unit price and
\* line total, line for line.
SameLines(items, lines) ==
    /\ Len(items) = Len(lines)
    /\ \A i \in 1..Len(lines) :
          /\ items[i].product_id = lines[i].product_id
          /\ items[i].quantity = lines[i].quantity
          /\ items[i].unit_price = lines[i].unit_price
          /\ items[i].line_total = lines[i].line_total

\* C12  Round trip of a committed sale: get_sale_details of the id a checkout
\* returned gives one item per cart line, in cart order, with the product id,
\* quantity, unit price and line total of the line, and keeps giving them after
\* any edit or deletion of the products.
SaleRoundTrip ==
    /\ Len(handed) = Len(sales)
    /\ \A s \in Sessions :
          result[s].kind = "Sale" => result[s].sale_id \in 1..Len(sales)
    /\ \A id \in 1..Len(sales) :
          /\ get_sale_details(id).found
          /\ get_sale_details(id).sale_id = id
          /\ SameLines(get_sale_details(id).items, handed[id])

\* A sale of two lines is read back after the product of its first line was
\* deleted and the product of its second line was edited, both after the items
\* of the sale were written (the items hold the volumes read at that time).
ReadBackAfterEditAndDelete ==
    \E id \in 1..Len(sales) :
        LET items == get_sale_details(id).items
        IN  /\ Len(items) = 2
            /\ ~products[items[1].product_id].present
            /\ items[1].milliliters # 0
            /\ products[items[2].product_id].present
            /\ items[2].milliliters # 0
            /\ products[items[2].product_id].milliliters # items[2].milliliters
            /\ products[items[2].product_id].selling_price # items[2].unit_price

\* C13  Sale immutability: no step changes or deletes the header or an item of a
\* committed sale; the sales and their items only grow.
SalesImmutable ==
    [][/\ Len(sales') >= Len(sales)
       /\ SubSeq(sales', 1, Len(sales)) = sales
       /\ Len(sale_items') >= Len(sale_items)
       /\ SubSeq(sale_items', 1, Len(sale_items)) = sale_items
       /\ \A id \in 1..Len(sales) : get_sale_details(id)' = get_sale_details(id)]_vars

\* Two sales are persisted and a product sold by the first one has been deleted.
SecondSaleAndDeletionAfterFirst ==
    /\ Len(sales) = 2
    /\ \E i \in 1..Len(get_sale_details(1).items) :
          ~products[get_sale_details(1).items[i].product_id].present

\* C14  Denormalization at commit time: the product name, unit price and unit
\* volume stored in a sale item are those of the product at the moment of the
\* commit, however the product was edited between the add and the checkout.
CopiedAtCommit ==
    [][\A s \in Sessions :
          ReturnsSale(s) =>
              LET items == get_sale_details(Len(sales))'.items
              IN  \A i \in 1..Len(items) :
                      LET row == products[items[i].product_id]
                      IN  row.present =>
                              /\ items[i].product_name = row.name
                              /\ items[i].unit_price = row.selling_price
                              /\ items[i].milliliters = row.milliliters]_vars

\* C15  Persisted totals: every sale has grand_total equal to the sum of the
\* line totals of its persisted items, and every persisted item has
\* line_total = round(unit_price * quantity, 2).
PersistedTotals ==
    \A id \in 1..Len(sales) :
        LET d == get_sale_details(id)
        IN  /\ d.grand_total = SumLineTotals(d.items, 1)
            /\ \A i \in 1..Len(d.items) :
                  d.items[i].line_total =
                      RoundHalfEven(d.items[i].unit_price * d.items[i].quantity, 10)

\* A sale of two lines is persisted, the first of them for two units.
SaleOfTwoLinesAndTwoUnits ==
    \E id \in 1..Len(sales) :
        /\ Len(get_sale_details(id).items) = 2
        /\ get_sale_details(id).items[1].quantity = 2

\* C16  Cart totals: after any sequence of adds (merges included), removals and
\* clears every cart line has line_total = round(unit_price * quantity, 2) and
\* the grand total shown is the sum of the line totals of the lines in the cart,
\* 0 for an empty cart.
CartTotals ==
    \A s \in Sessions :
        /\ \A i \in 1..Len(cart[s]) :
              cart[s][i].line_total =
                  RoundHalfEven(cart[s][i].unit_price * cart[s][i].quantity, 10)
        /\ Shillings(total[s]) = SumLineTotals(cart[s], 1)
        /\ cart[s] = <<>> => total[s] = 0

\* A cart of two lines, of two units and of one unit, shows their total.
TotalOfTwoLinesShown ==
    \E s \in Sessions :
        /\ Len(cart[s]) = 2
        /\ cart[s][1].quantity = 2
        /\ cart[s][2].quantity = 1
        /\ Shillings(total[s]) = 2 * cart[s][1].unit_price + cart[s][2].unit_price

\* The step of session s changes its cart without shortening it: an add.
CartGrows(s) ==
    /\ pc[s] = "building"
    /\ cart'[s] # cart[s]
    /\ Len(cart'[s]) >= Len(cart[s])

\* The step adds units to line i of the cart of session s and leaves every line in
\* its place.
MergesInto(s, i) ==
    /\ Len(cart'[s]) = Len(cart[s])
    /\ cart'[s][i].product_id = cart[s][i].product_id
    /\ cart'[s][i].product_name = cart[s][i].product_name
    /\ cart'[s][i].unit_price = cart[s][i].unit_price
    /\ cart'[s][i].quantity > cart[s][i].quantity
    /\ \A j \in 1..Len(cart[s]) : j # i => cart'[s][j] = cart[s][j]

\* The step appends one line, of a product that was not in the cart of session s.
AppendsLine(s) ==
    /\ Len(cart'[s]) = Len(cart[s]) + 1
    /\ SubSeq(cart'[s], 1, Len(cart[s])) = cart[s]
    /\ LineOf(cart[s], cart'[s][Len(cart'[s])].product_id, 1) = 0

\* C17  Cart key uniqueness and merge: the cart never has two lines of the same
\* product; an add of a product that is in the cart adds the quantity to its
\* line, which keeps its position, and appends nothing; an add of a product that
\* is not in the cart appends one line at the end.
CartKeyUniqueAndMerge ==
    /\ [](\A s \in Sessions : \A i, j \in 1..Len(cart[s]) :
             cart[s][i].product_id = cart[s][j].product_id => i = j)
    /\ [][\A s \in Sessions :
             CartGrows(s) =>
                 \/ \E i \in 1..Len(cart[s]) : MergesInto(s, i)
                 \/ AppendsLine(s)]_vars

\* The first line of a cart of two lines holds two units: units were merged into
\* it, or a second product was appended after it.
TwoLinesFirstOfTwoUnits ==
    \E s \in Sessions :
        /\ Len(cart[s]) = 2
        /\ cart[s][1].quantity = 2
        /\ cart[s][1].product_id # cart[s][2].product_id

\* Units of product p in cart c.
InCart(c, p) == IF LineOf(c, p, 1) = 0 THEN 0 ELSE c[LineOf(c, p, 1)].quantity

\* No cart line asks for more than the quantity_available of its product.
NoLineExceedsStock ==
    \A s \in Sessions : \A i \in 1..Len(cart[s]) :
        /\ products[cart[s][i].product_id].present
        /\ cart[s][i].quantity <= quantity_available(products[cart[s][i].product_id])

\* C18  Advisory cart check: an add of q units of a product is accepted only if
\* the units of it in the cart plus q are at most its quantity_available;
\* otherwise it is rejected with an insufficient-stock error that reports the
\* available quantity and the cart is left as it was.  Hence no step that leaves
\* the stock alone makes a cart line exceed the quantity_available.
AdvisoryCartCheck ==
    [][/\ \A s \in Sessions : \A p \in ProductIds : \A q \in Quantities :
             /\ add_item_to_cart(s, p, q) =>
                    /\ products[p].present
                    /\ InCart(cart[s], p) + q <= quantity_available(products[p])
             /\ add_item_rejected(s, p, q) =>
                    /\ cart'[s] = cart[s]
                    /\ total'[s] = total[s]
                    /\ products[p].present =>
                           /\ InCart(cart[s], p) + q > quantity_available(products[p])
                           /\ result'[s].msg \in {"Insufficient stock",
                                                   "Cannot add more. Insufficient stock"}
                           /\ result'[s].available = quantity_available(products[p])
       /\ (products' = products /\ NoLineExceedsStock) => NoLineExceedsStock']_vars

\* An add of more units of a product in the cart was rejected and the cart still
\* holds the line as it was.
MergeRejected ==
    \E s \in Sessions :
        /\ result[s].kind = "AddRejected"
        /\ result[s].msg = "Cannot add more. Insufficient stock"
        /\ InCart(cart[s], result[s].product_id) >= 1
        /\ result[s].available >= InCart(cart[s], result[s].product_id)

\* The last commit attempt of session s was aborted and nothing was done since.
Aborted(s) ==
    /\ pc[s] = "building"
    /\ result[s].kind \in {"StockError", "Failed"}

\* The step in which a commit attempt of session s ends.
EndsAttempt(s) == pc[s] # "building" /\ pc'[s] = "building"

\* The session moves Empty -> Building -> Committing and back: a commit attempt
\* starts from a cart that is not empty, the cart is not touched while it runs,
\* and a successful attempt leaves an empty cart behind.
SessionProgress(s) ==
    /\ (pc[s] = "building" /\ pc'[s] # "building") =>
           (cart[s] # <<>> /\ pc'[s] = "validate")
    /\ (pc[s] # "building" /\ pc'[s] # "building") => cart'[s] = cart[s]
    /\ (EndsAttempt(s) /\ result'[s].kind = "Sale") =>
           (cart'[s] = <<>> /\ total'[s] = 0)

\* C19  Checkout session state machine, as claimed: a session moves
\* Empty -> Building -> Committing -> {Committed | Aborted}, and Committed and
\* Aborted are terminal: once a commit attempt has ended, nothing acts on the cart
\* of that session any more and the next session starts from an empty cart.
EndedSessionsAreTerminal ==
    [][\A s \in Sessions :
          /\ SessionProgress(s)
          /\ Aborted(s) =>
                 \/ cart'[s] = cart[s] /\ pc'[s] = "building"
                 \/ cart'[s] = <<>>]_vars

\* C19  as amended: a session moves Empty -> Building -> Committing; a commit
\* attempt that succeeds ends the session and the next one starts from an empty
\* cart; a commit attempt that is aborted returns the session to Building with
\* its cart as it was, open to further adds, removals and commit attempts.
AbortReturnsToBuilding ==
    [][\A s \in Sessions :
          /\ SessionProgress(s)
          /\ (EndsAttempt(s) /\ result'[s].kind # "Sale") =>
                 /\ Aborted(s)'
                 /\ cart'[s] = cart[s]
                 /\ cart'[s] # <<>>
                 /\ total'[s] = total[s]]_vars

\* The cart of a commit attempt that validation aborted is in a new commit
\* attempt.
RetryOfAbortedCart ==
    \E s \in Sessions :
        /\ pc[s] = "validate"
        /\ result[s].kind = "StockError"

\* The step of session s is a cart operation: it changes the cart outside a
\* checkout.
CartOperation(s) ==
    /\ pc[s] = "building"
    /\ pc'[s] = "building"
    /\ cart'[s] # cart[s]

\* C20  Cart operations do not touch the store: an add, a removal or a clear
\* changes no product, sale or sale item, takes no lock and opens no
\* transaction, whatever the other registers are doing.
CartOpsLeaveStore ==
    [][\A s \in Sessions :
          CartOperation(s) =>
              /\ store' = store
              /\ write_lock' = write_lock
              /\ tx' = tx]_vars

\* A register that has committed a sale builds a new cart while another register
\* holds the write lock in its transaction.
CartBuiltWhileLockHeld ==
    \E s, t \in Sessions :
        /\ s # t
        /\ write_lock = t
        /\ Len(sales) >= 1
        /\ sales[1].cashier_id = s
        /\ pc[s] = "building"
        /\ cart[s] # <<>>

\* The step in which the UPDATE of update_inventory_after_sale lands on product p:
\* a call of its own commits, or a turn of the deduction loop of a checkout finds
\* the write lock free.  The counter grows by the quantity of the call.
IncrementsInPlace(p) ==
    \/ \E s \in Sessions :
          /\ deduct[s].pc = "executed"
          /\ deduct'[s].returned = "True"
          /\ deduct[s].product_id = p
          /\ products'[p].quantity_sold =
                 products[p].quantity_sold + deduct[s].quantity
    \/ \E s \in Sessions :
          /\ Deducts(s)
          /\ cart[s][idx[s]].product_id = p
          /\ products'[p].quantity_sold =
                 products[p].quantity_sold + cart[s][idx[s]].quantity

\* The step in which the UPDATE of an edit_product is executed.
WritesEdit == edit.active /\ ~edit'.active

\* C21  Stock counter ownership: the quantity_sold of a product that exists before
\* and after a step never decreases; it changes only in a step in which the
\* increment-in-place UPDATE of the inventory update of a sale lands, and then by
\* the quantity sold; and the write of an edit_product leaves it as it is, also
\* when units of the product were sold between the read of the edit and its write.
StockCounterOwnership ==
    [][\A p \in ProductIds :
          products[p].present /\ products'[p].present =>
              /\ products'[p].quantity_sold >= products[p].quantity_sold
              /\ products'[p].quantity_sold # products[p].quantity_sold
                     => IncrementsInPlace(p)
              /\ WritesEdit
                     => products'[p].quantity_sold = products[p].quantity_sold]_vars

\* An edit has been written whose product had units sold between the read of the
\* edit and its write, and the counter of the product holds them.
EditOvertakenBySale ==
    \E p \in ProductIds :
        /\ overtaken > 0
        /\ products[p].present
        /\ products[p].quantity_sold >= overtaken
        /\ products[p].quantity_available # quantity_available(products[p])

\* C22  Availability check: validate_stock_availability(id, q) returns ok exactly
\* when the product exists and q <= quantity_stocked - quantity_sold; for a
\* product that does not exist it returns "Product not found", and otherwise an
\* insufficient-stock error that carries quantity_stocked - quantity_sold; an add
\* to the cart, which runs it, is accepted or rejected by it for a product not yet
\* in the cart and leaves the store as it is.
AvailabilityCheck ==
    /\ [](\A p \in ProductIds, q \in 1..(MaxStock + 1) :
            LET v == validate_stock_availability(p, q)
                row == products[p]
                stock == row.quantity_stocked - row.quantity_sold
            IN  /\ v.valid <=> (row.present /\ q <= stock)
                /\ ~row.present => v.msg = "Product not found"
                /\ row.present /\ ~v.valid =>
                       v.msg = "Insufficient stock" /\ v.available = stock)
    /\ [][\A p \in ProductIds, q \in Quantities :
            LET row == products[p]
                stock == row.quantity_stocked - row.quantity_sold
            IN  /\ add_item_to_cart(1, p, q) =>
                       row.present /\ q <= stock /\ store' = store
                /\ add_item_rejected(1, p, q) =>
                       /\ store' = store
                       /\ LineOf(cart[1], p, 1) = 0 =>
                              /\ ~(row.present /\ q <= stock)
                              /\ result'[1].msg = IF row.present
                                                  THEN "Insufficient stock"
                                                  ELSE "Product not found"
                              /\ result'[1].available = IF row.present THEN stock
                                                        ELSE 0]_vars

\* An add has been rejected for insufficient stock of a product with units sold,
\* and the error carries the one unit that is left.
RejectedWithUnitsLeft ==
    \E p \in ProductIds :
        /\ result[1].kind = "AddRejected"
        /\ result[1].product_id = p
        /\ result[1].msg = "Insufficient stock"
        /\ result[1].available = 1
        /\ products[p].present
        /\ products[p].quantity_sold >= 1
        /\ products[p].quantity_stocked - products[p].quantity_sold = 1
        /\ products[p].quantity_available # 1

\* C23  Sale identifiers: the id that a successful commit returns is the id of the
\* sale it committed and is greater than the id of every sale committed before,
\* whichever session committed it and whatever attempts failed or were rolled
\* back in between; so the ids of the committed sales are unique and strictly
\* increasing in commit order.
SaleIdsIncrease ==
    /\ [](\A i, j \in 1..Len(sales) : i < j => sales[i].id < sales[j].id)
    /\ [][\A s \in Sessions :
            ReturnsSale(s) =>
                /\ Len(sales') = Len(sales) + 1
                /\ sales'[Len(sales')].id = result'[s].sale_id
                /\ \A i \in 1..Len(sales) : sales[i].id < result'[s].sale_id]_vars

\* Two registers have each committed a sale, and another attempt, begun after the
\* first sale, failed before the second was committed by the other register.
TwoSalesAroundFailedAttempt ==
    \E s \in Sessions :
        /\ Len(sales) = 2
        /\ sales[1].cashier_id # sales[2].cashier_id
        /\ sales[1].cashier_id = get_current_user(s).id
        /\ result[s].kind = "Failed"
        /\ started[s] = 1

RECURSIVE ProfitAtCurrentCost(_, _)
\* Over the rows of sale_items from index i on: for the items of sale sale_id
\* whose product has a row, line_total less the cost in that row times the
\* quantity.  An item whose product has been deleted has no cost at report time.
ProfitAtCurrentCost(sale_id, i) ==
    IF i > Len(sale_items) THEN 0
    ELSE (IF sale_items[i].sale_id = sale_id
             /\ products[sale_items[i].product_id].present
          THEN sale_items[i].line_total
                   - products[sale_items[i].product_id].cost_price
                         * sale_items[i].quantity
          ELSE 0)
         + ProfitAtCurrentCost(sale_id, i + 1)

\* C24  Report profit uses current cost: in the report that generate_report makes,
\* the profit of every sale is the sum over the sale's items of line_total -
\* cost_price * quantity, with cost_price the cost that the product's row holds
\* when the report is generated (so a cost edited after the sale changes the
\* profit reported for it); and generating a report writes nothing to the store.
ReportProfitUsesCurrentCost ==
    [][\A d \in Days :
          generate_report(d, d) =>
              /\ store' = store
              /\ {row.id : row \in report'.table} =
                     {sales[i].id : i \in {k \in 1..Len(sales) : sales[k].sale_date = d}}
              /\ \A row \in report'.table :
                     Shillings(row.profit) = ProfitAtCurrentCost(row.id, 1)]_vars

\* The report shows a sale of one item whose product was given another volume and
\* another cost after the item was written, with the profit at the new cost.
ReportAfterCostEdit ==
    /\ report.generated
    /\ \E row \in report.table : \E i \in 1..Len(sale_items) :
          LET item == sale_items[i]
              product == products[item.product_id]
          IN  /\ item.sale_id = row.id
              /\ row.item_count = 1
              /\ product.present
              /\ item.milliliters # 0
              /\ item.milliliters # product.milliliters
              /\ product.cost_price # ShelfData(item.product_id).cost_price
              /\ Shillings(row.profit) =
                     item.line_total - product.cost_price * item.quantity
              /\ Shillings(row.profit) #
                     item.line_total
                         - ShelfData(item.product_id).cost_price * item.quantity

\* The committed sales dated from start to end, by their position in the table.
DatedIn(start, end) ==
    {i \in 1..Len(sales) : sales[i].sale_date >= start /\ sales[i].sale_date <= end}

RECURSIVE GrandTotalOf(_)
\* The sum of grand_total over the sales at the positions in the set.
GrandTotalOf(positions) ==
    IF positions = {} THEN 0
    ELSE LET i == CHOOSE k \in positions : TRUE
         IN  sales[i].grand_total + GrandTotalOf(positions \ {i})

RECURSIVE CountOver(_)
\* The sum of transaction_count over a set of cashier rows.
CountOver(rows) ==
    IF rows = {} THEN 0
    ELSE LET r == CHOOSE x \in rows : TRUE
         IN  r.transaction_count + CountOver(rows \ {r})

RECURSIVE SalesOver(_)
\* The sum of total_sales over a set of cashier rows.
SalesOver(rows) ==
    IF rows = {} THEN 0
    ELSE LET r == CHOOSE x \in rows : TRUE
         IN  r.total_sales + SalesOver(rows \ {r})

UniqueConstraintFailed == "UNIQUE constraint failed: products.id"

DatabaseIsLocked == "database is locked"

\* C26 as stated  Duplicate product id: add_product with an id that already exists
\* fails with an integrity error that is reported to the user, and leaves the
\* existing product (its quantity_sold included) and every other row unchanged;
\* an add succeeds only for an id that has no row, so product ids stay unique.
DuplicateIdIntegrityError ==
    [][\A p \in ProductIds, n \in StockLevels :
          add_product(p, ShelfData(p), n) =>
              /\ products[p].present =>
                     /\ added'.kind = "Error"
                     /\ added'.product_id = p
                     /\ added'.text = UniqueConstraintFailed
                     /\ store' = store
              /\ added'.kind = "Success" => ~products[p].present]_vars

\* C26 amended  Duplicate product id: add_product with an id that already exists
\* fails with an error that is reported to the user, the integrity error when no
\* other connection holds the write lock and "database is locked" when one does,
\* and leaves the existing product (its quantity_sold included) and every other
\* row unchanged; an add succeeds only for an id that has no row, and then writes
\* that row alone, so product ids stay unique.
DuplicateIdRejected ==
    [][\A p \in ProductIds, n \in StockLevels :
          add_product(p, ShelfData(p), n) =>
              /\ products[p].present =>
                     /\ added'.kind = "Error"
                     /\ added'.product_id = p
                     /\ added'.text = IF write_lock = NoLock
                                      THEN UniqueConstraintFailed
                                      ELSE DatabaseIsLocked
                     /\ store' = store
              /\ added'.kind = "Success" =>
                     /\ ~products[p].present
                     /\ products'[p].present
                     /\ products'[p].quantity_stocked = n
                     /\ products'[p].quantity_sold = 0
                     /\ \A q \in ProductIds \ {p} : products'[q] = products[q]
                     /\ sales' = sales
                     /\ sale_items' = sale_items]_vars

\* An add under the id of a product with units sold has been refused with the
\* integrity error, and another id has been entered with success before.
DuplicateOfSoldProductRefused ==
    /\ added.kind = "Error"
    /\ added.text = UniqueConstraintFailed
    /\ products[added.product_id].present
    /\ products[added.product_id].quantity_sold >= 1
    /\ \A p \in ProductIds : products[p].present

\* The step in which an add to the cart calls get_product and ends, with the item
\* added or with an error.
LooksUpProduct ==
    \E p \in ProductIds, q \in Quantities :
        add_item_to_cart(1, p, q) \/ add_item_rejected(1, p, q)

\* C27  Derived product fields: get_product(id) of a stored product returns a
\* Product with the columns of the row whose profit is selling_price - cost_price
\* and whose quantity_available is quantity_stocked - quantity_sold, whatever the
\* stored profit and quantity_available columns hold; get_product of an id with
\* no row returns None; and a step that calls get_product writes nothing.
DerivedProductFields ==
    /\ [](\A p \in ProductIds :
            LET product == get_product(p)
                row == products[p]
            IN  IF row.present
                THEN /\ product.present
                     /\ product.name = row.name
                     /\ product.cost_price = row.cost_price
                     /\ product.selling_price = row.selling_price
                     /\ product.quantity_stocked = row.quantity_stocked
                     /\ product.quantity_sold = row.quantity_sold
                     /\ product.profit = row.selling_price - row.cost_price
                     /\ product.quantity_available =
                            row.quantity_stocked - row.quantity_sold
                ELSE ~product.present)
    /\ [][LooksUpProduct => store' = store]_vars

\* An add has found no product under a deleted id, and the cart holds a product
\* whose stored quantity_available column is not what get_product returns.
LookedUpDeletedAndStale ==
    \E p, q \in ProductIds :
        /\ ~get_product(p).present
        /\ result[1].kind = "AddRejected"
        /\ result[1].product_id = p
        /\ result[1].msg = "Product not found"
        /\ LineOf(cart[1], q, 1) # 0
        /\ products[q].present
        /\ products[q].quantity_sold >= 1
        /\ products[q].quantity_available # get_product(q).quantity_available

\* C28  Database initialisation: after init_db, on a fresh database and on one
\* that is initialised already, at least one user with role admin exists; on a
\* fresh database the login with the default admin credentials then succeeds;
\* and an init_db that is not the first one creates no further user, and no
\* init_db changes a product, a sale, a sale item or an existing user.
InitDbEnsuresAdmin ==
    [][init_db =>
          /\ Admins(users') # {}
          /\ users = <<>> => login("admin", "admin123")'.success
          /\ startup # "none" => users' = users
          /\ SubSeq(users', 1, Len(users)) = users
          /\ store' = store]_vars

\* C29  removeItem: removing the line at a row of the cart deletes that line and
\* leaves every other line (product, quantity, unit price, line total) and their
\* order as they were; a row out of range changes nothing; the removal is made
\* whatever the stock of the products in the cart, and the store is not touched.
RemoveItemFrame ==
    /\ [](\A row \in 1..Len(cart[1]) :
            pc[1] = "building" => ENABLED <<remove_item_at_row(1, row)>>_vars)
    /\ [][\A row \in 0..(NumProducts + 1) :
            remove_item_at_row(1, row) =>
                /\ store' = store
                /\ IF row >= 1 /\ row <= Len(cart[1])
                   THEN /\ Len(cart'[1]) = Len(cart[1]) - 1
                        /\ \A i \in 1..Len(cart'[1]) :
                              cart'[1][i] = cart[1][IF i < row THEN i ELSE i + 1]
                   ELSE cart' = cart /\ total' = total]_vars

\* The first line has been removed from a cart of two lines while the product of
\* the line that is left was deleted: that line is as it was put in.
FirstLineRemovedSecondKept ==
    /\ Len(cart[1]) = 1
    /\ cart[1][1].product_id = NumProducts
    /\ cart[1][1].quantity = MaxStock
    /\ cart[1][1].line_total = MaxStock * ShelfData(NumProducts).selling_price
    /\ ~products[NumProducts].present
    /\ total[1] * 1000 = cart[1][1].line_total

\* C30  Stored availability column: the inventory update after a sale updates
\* quantity_sold and the stored quantity_available column, so that the column
\* of every product row equals quantity_stocked - quantity_sold in every state
\* reached by product edits and inventory updates.
StoredAvailabilityColumn ==
    \A p \in ProductIds :
        products[p].present =>
            products[p].quantity_available =
                products[p].quantity_stocked - products[p].quantity_sold

\* The step in which an edit_product passes the check of its new stock level.
AcceptsEdit == ~edit.active /\ edit'.active

SoldProductsExist ==
    [][\A s \in Sessions :
          ReturnsSale(s) =>
              \A i \in 1..Len(tx[s].items) :
                  LET item == tx[s].items[i]
                  IN  /\ products[item.product_id].present
                      /\ products[item.product_id].quantity_sold
                             >= before[s][item.product_id].quantity_sold
                                    + item.quantity]_vars

\* C33  Cart after checkout: a checkout that returns a sale id leaves the cart
\* empty; a checkout that fails, by a line that fails validation, by a missing
\* user session or by create_sale returning no id, leaves the cart with the
\* lines it held when the checkout began (no step of a checkout before its end
\* changes the cart).
CartAfterCheckout ==
    [][\A s \in Sessions :
          /\ pc[s] = "building" /\ pc'[s] # "building" => cart'[s] = cart[s]
          /\ pc[s] # "building" =>
                IF ReturnsSale(s)
                THEN cart'[s] = <<>> /\ total'[s] = 0
                ELSE /\ cart'[s] = cart[s]
                     /\ total'[s] = total[s]
                     /\ EndsAttempt(s) =>
                            result'[s].kind \in {"StockError", "Error", "Failed"}]_vars

\* After a sale that emptied the cart, a checkout of a new cart was refused for
\* the missing user session and the cart still holds its line.
CartKeptAfterSessionExpired ==
    /\ Len(sales) = 1
    /\ session[1] = NoUser
    /\ result[1] = SessionExpiredResult
    /\ pc[1] = "building"
    /\ Len(cart[1]) = 1

\* C34  Checkout guards: a checkout with an empty cart is refused at once, and a
\* register with no logged-in user never gets into create_sale: it holds no
\* transaction and no write lock, and its checkout steps leave the products,
\* the sales and the sale items as they are; and every committed sale has at
\* least one sale item.
CheckoutGuards ==
    /\ [](/\ \A s \in Sessions :
                get_current_user(s) = NoUser =>
                    /\ pc[s] \notin InCreateSale
                    /\ tx[s] = NoTx
                    /\ write_lock # s
          /\ \A i \in 1..Len(sales) : item_count(sales[i].id) >= 1)
    /\ [][\A s \in Sessions :
            /\ complete_sale(s) /\ cart[s] = <<>> =>
                  /\ pc'[s] = "building"
                  /\ tx'[s] = NoTx
                  /\ store' = store
            /\ (get_current_user(s) = NoUser /\ (pc'[s] # pc[s] \/ result'[s] # result[s])) =>
                  /\ pc'[s] \notin InCreateSale
                  /\ store' = store
                  /\ write_lock' = write_lock]_vars

\* A checkout of a cart whose lines all pass validation has been refused for the
\* missing user session: nothing is sold and nothing is written.
RefusedWithoutSession ==
    /\ result[1] = SessionExpiredResult
    /\ cart[1] # <<>>
    /\ \A i \in 1..Len(cart[1]) :
          validate_stock_availability(cart[1][i].product_id, cart[1][i].quantity).valid
    /\ sales = <<>>
    /\ sale_items = <<>>
    /\ \A p \in ProductIds : products[p].present /\ products[p].quantity_sold = 0

\* C35  Agreement of the two profit views: for every committed sale the profit
\* in its row of the sales report equals the profit in its row of the
\* transactions of its cashier, in every state, those after a product sold in
\* the sale was edited or deleted included.
ProfitViewsAgree ==
    \A i \in 1..Len(sales) :
        \E row \in view_transactions(sales[i].cashier_id) :
            /\ row.id = sales[i].id
            /\ row.profit = ReportRow(sales[i]).profit

\* The sales committed at register s, in the order of their commits.
CompletedAt(s) == SelectSeq(sales, LAMBDA r : r.cashier_id = LoggedIn(s).id)

\* C36  Reprint of the last receipt: a reprint_last_receipt made when no receipt
\* has been printed yet fails with "No receipt to reprint" and prints nothing;
\* any other prints the receipt of the sale completed last at the register,
\* whatever the order in which the print threads of its checkouts have run.
ReprintsLastSale ==
    [][\A s \in Sessions :
          reprint_last_receipt(s) =>
              IF receipts[s] = {}
              THEN /\ reprinted'[s] = [success |-> FALSE,
                                       msg |-> "No receipt to reprint", sale_id |-> 0]
                   /\ receipts'[s] = {}
              ELSE /\ reprinted'[s].success
                   /\ reprinted'[s].sale_id
                          = CompletedAt(s)[Len(CompletedAt(s))].id]_vars

====
